---- MODULE Spec2Model ----
(***************************************************************************)
(* Model of scripts/generate-docs.py: the command tree (CommandTree),      *)
(* the resource/action collector, the canonical action sorter and the      *)
(* category mapper of the documentation generator.                         *)
(*                                                                         *)
(* A Python str is modelled as the tuple of its characters, so that        *)
(* comparison, prefix and substring tests are computed character by        *)
(* character as Python computes them.  A dict is modelled with its keys in *)
(* insertion order, as Python iterates it.                                 *)
(***************************************************************************)
EXTENDS Integers, Sequences, FiniteSets, TLC

VARIABLES tree, tree2, adds, adds2, arg, lastAt, overwrote, pc, matrix, pages,
          sortIn, sortOut, catIn, catOut,
          api_specs_dir, resource_api_map, nav, subcats, services, total,
          api_docs_urls, generated_files

vars == <<tree, tree2, adds, adds2, arg, lastAt, overwrote, pc, matrix, pages,
          sortIn, sortOut, catIn, catOut,
          api_specs_dir, resource_api_map, nav, subcats, services, total,
          api_docs_urls, generated_files>>

\* The spec files of the api_specs_dir (none when the directory does not
\* exist) and what generate_all adds to the state of the generator.
genVars == <<api_specs_dir, resource_api_map, nav, subcats, services,
            total, api_docs_urls, generated_files>>

(***************************************************************************)
(* Strings                                                                 *)
(***************************************************************************)

\* The characters that occur in names, in code point order.
Alphabet ==
    << " ", "-", ".", "/", "0", "1", "2", "3", "4", "5", "6", "7", "8", "9",
       "A", "B", "C", "D", "E", "F", "G", "H", "I", "J", "K", "L", "M",
       "N", "O", "P", "Q", "R", "S", "T", "U", "V", "W", "X", "Y", "Z",
       "_",
       "a", "b", "c", "d", "e", "f", "g", "h", "i", "j", "k", "l", "m",
       "n", "o", "p", "q", "r", "s", "t", "u", "v", "w", "x", "y", "z" >>

Ord(c) == CHOOSE i \in 1..Len(Alphabet) : Alphabet[i] = c

Range(s) == {s[i] : i \in 1..Len(s)}

\* The tuple of the elements f[1], ..., f[n] of a function on 1..n.
List(f) == SubSeq(f, 1, Len(f))

\* ord() of every character of a str
Codes(s) == List([i \in 1..Len(s) |-> Ord(s[i])])

\* Python's a < b on sort keys (str by code point, tuple by element):
\* lexicographic, a proper prefix first.  A key is a tuple of numbers.
KeyLess(a, b) ==
    \/ /\ Len(a) < Len(b)
       /\ SubSeq(b, 1, Len(a)) = a
    \/ \E i \in 1..Len(a) :
          /\ i <= Len(b)
          /\ SubSeq(a, 1, i - 1) = SubSeq(b, 1, i - 1)
          /\ a[i] < b[i]

\* str.startswith
StartsWith(s, p) ==
    /\ Len(p) <= Len(s)
    /\ SubSeq(s, 1, Len(p)) = p

\* the `in` operator on str
Contains(s, p) ==
    \E i \in 1..(Len(s) - Len(p) + 1) : SubSeq(s, i, i + Len(p) - 1) = p

\* str.replace(old, ""): the occurrences of old are removed left to right,
\* each search starting after the occurrence removed before
RECURSIVE Remove(_, _)
Remove(s, old) ==
    IF ~Contains(s, old) THEN s
    ELSE LET i == CHOOSE k \in 1..Len(s) :
                    /\ SubSeq(s, k, k + Len(old) - 1) = old
                    /\ \A j \in 1..(k - 1) : SubSeq(s, j, j + Len(old) - 1) # old
         IN  SubSeq(s, 1, i - 1) \o Remove(SubSeq(s, i + Len(old), Len(s)), old)

LowerChar(c) ==
    IF Ord(c) >= Ord("A") /\ Ord(c) <= Ord("Z")
    THEN Alphabet[Ord(c) - Ord("A") + Ord("a")]
    ELSE c

\* str.lower
Lower(s) == List([i \in 1..Len(s) |-> LowerChar(s[i])])

\* sorted(xs, key=...), where keys[i] is the key of xs[i].  Python's sort is
\* stable: xs[i] comes after the elements of smaller key and after the
\* elements of equal key that precede it in xs.
Rank(keys, i) ==
    Cardinality({j \in 1..Len(keys) :
                    \/ KeyLess(keys[j], keys[i])
                    \/ keys[j] = keys[i] /\ j < i}) + 1

Sorted(xs, keys) ==
    LET ks    == List(keys)
        ranks == List([i \in 1..Len(xs) |-> Rank(ks, i)])
    IN  List([k \in 1..Len(xs) |-> xs[CHOOSE i \in 1..Len(xs) : ranks[i] = k]])

(***************************************************************************)
(* Names used as path segments                                             *)
(***************************************************************************)

S_configuration == <<"c","o","n","f","i","g","u","r","a","t","i","o","n">>
S_list == <<"l","i","s","t">>
S_get == <<"g","e","t">>
S_zeta == <<"z","e","t","a">>
S_alpha == <<"a","l","p","h","a">>
S_namespace == <<"n","a","m","e","s","p","a","c","e">>
S_pool == <<"p","o","o","l">>
S_detail == <<"d","e","t","a","i","l">>
S_status == <<"s","t","a","t","u","s">>
S_custom1 == <<"c","u","s","t","o","m","1">>
S_custom2 == <<"c","u","s","t","o","m","2">>

(***************************************************************************)
(* Tables of the program                                                   *)
(***************************************************************************)

ACTION_ORDER ==
    << <<"l","i","s","t">>,
       <<"g","e","t">>,
       <<"c","r","e","a","t","e">>,
       <<"d","e","l","e","t","e">>,
       <<"r","e","p","l","a","c","e">>,
       <<"a","p","p","l","y">>,
       <<"p","a","t","c","h">>,
       <<"s","t","a","t","u","s">>,
       <<"a","d","d","-","l","a","b","e","l","s">>,
       <<"r","e","m","o","v","e","-","l","a","b","e","l","s">> >>

PROTO_PREFIX_MAP ==
    << <<<<"v","i","e","w","s",".","h","t","t","p","_","l","o","a","d","b","a","l","a","n","c","e","r">>, "Load Balancing">>,
       <<<<"v","i","e","w","s",".","t","c","p","_","l","o","a","d","b","a","l","a","n","c","e","r">>, "Load Balancing">>,
       <<<<"v","i","e","w","s",".","u","d","p","_","l","o","a","d","b","a","l","a","n","c","e","r">>, "Load Balancing">>,
       <<<<"v","i","e","w","s",".","c","d","n","_","l","o","a","d","b","a","l","a","n","c","e","r">>, "Load Balancing">>,
       <<<<"v","i","e","w","s",".","o","r","i","g","i","n","_","p","o","o","l">>, "Load Balancing">>,
       <<<<"c","l","u","s","t","e","r">>, "Load Balancing">>,
       <<<<"e","n","d","p","o","i","n","t">>, "Load Balancing">>,
       <<<<"h","e","a","l","t","h","c","h","e","c","k">>, "Load Balancing">>,
       <<<<"r","o","u","t","e">>, "Load Balancing">>,
       <<<<"v","i","r","t","u","a","l","_","h","o","s","t">>, "Load Balancing">>,
       <<<<"v","i","e","w","s",".","a","w","s","_","v","p","c","_","s","i","t","e">>, "Sites">>,
       <<<<"v","i","e","w","s",".","a","z","u","r","e","_","v","n","e","t","_","s","i","t","e">>, "Sites">>,
       <<<<"v","i","e","w","s",".","g","c","p","_","v","p","c","_","s","i","t","e">>, "Sites">>,
       <<<<"v","i","e","w","s",".","v","o","l","t","s","t","a","c","k","_","s","i","t","e">>, "Sites">>,
       <<<<"v","i","e","w","s",".","s","e","c","u","r","e","m","e","s","h","_","s","i","t","e">>, "Sites">>,
       <<<<"v","i","e","w","s",".","s","e","c","u","r","e","m","e","s","h","_","s","i","t","e","_","v","2">>, "Sites">>,
       <<<<"v","i","e","w","s",".","a","w","s","_","t","g","w","_","s","i","t","e">>, "Sites">>,
       <<<<"f","l","e","e","t">>, "Sites">>,
       <<<<"s","h","a","p","e",".","b","o","t","_","d","e","f","e","n","s","e">>, "Bot Defense">>,
       <<<<"s","h","a","p","e",".","c","l","i","e","n","t","_","s","i","d","e","_","d","e","f","e","n","s","e">>, "Client-Side Defense">>,
       <<<<"s","h","a","p","e",".","b","r","m","a","l","e","r","t","s">>, "Shape Services">>,
       <<<<"s","h","a","p","e",".","d","a","t","a","_","d","e","l","i","v","e","r","y">>, "Shape Services">>,
       <<<<"s","h","a","p","e",".","d","e","v","i","c","e","_","i","d">>, "Shape Services">>,
       <<<<"s","h","a","p","e",".","m","o","b","i","l","e","_","a","p","p","_","s","h","i","e","l","d">>, "Shape Services">>,
       <<<<"s","h","a","p","e",".","m","o","b","i","l","e","_","i","n","t","e","g","r","a","t","o","r">>, "Shape Services">>,
       <<<<"s","h","a","p","e",".","r","e","c","o","g","n","i","z","e">>, "Shape Services">>,
       <<<<"s","h","a","p","e",".","s","a","f","e">>, "Shape Services">>,
       <<<<"s","h","a","p","e",".","s","a","f","e","a","p">>, "Shape Services">>,
       <<<<"s","h","a","p","e">>, "Shape Services">>,
       <<<<"a","p","i","_","s","e","c">>, "API Security">>,
       <<<<"v","i","e","w","s",".","a","p","i","_","d","e","f","i","n","i","t","i","o","n">>, "API Security">>,
       <<<<"v","i","e","w","s",".","a","p","p","_","a","p","i","_","g","r","o","u","p">>, "API Security">>,
       <<<<"i","n","f","r","a","p","r","o","t","e","c","t">>, "Infrastructure Protection">>,
       <<<<"b","i","g","i","p">>, "BIG-IP Integration">>,
       <<<<"b","i","g","c","n","e">>, "BIG-IP Integration">>,
       <<<<"v","i","e","w","s",".","b","i","g","i","p","_","v","i","r","t","u","a","l","_","s","e","r","v","e","r">>, "BIG-IP Integration">>,
       <<<<"n","e","t","w","o","r","k">>, "Networking">>,
       <<<<"v","i","r","t","u","a","l","_","n","e","t","w","o","r","k">>, "Networking">>,
       <<<<"b","g","p">>, "Networking">>,
       <<<<"t","u","n","n","e","l">>, "Networking">>,
       <<<<"s","e","g","m","e","n","t">>, "Networking">>,
       <<<<"v","i","e","w","s",".","n","e","t","w","o","r","k","_","p","o","l","i","c","y","_","v","i","e","w">>, "Networking">>,
       <<<<"v","i","e","w","s",".","f","o","r","w","a","r","d","_","p","r","o","x","y","_","p","o","l","i","c","y">>, "Networking">>,
       <<<<"v","i","e","w","s",".","p","o","l","i","c","y","_","b","a","s","e","d","_","r","o","u","t","i","n","g">>, "Networking">>,
       <<<<"d","n","s">>, "DNS">>,
       <<<<"c","e","r","t","i","f","i","c","a","t","e">>, "Certificates">>,
       <<<<"t","r","u","s","t","e","d","_","c","a">>, "Certificates">>,
       <<<<"c","r","l">>, "Certificates">>,
       <<<<"a","l","e","r","t">>, "Monitoring">>,
       <<<<"l","o","g">>, "Monitoring">>,
       <<<<"a","p","m">>, "Monitoring">>,
       <<<<"s","y","n","t","h","e","t","i","c","_","m","o","n","i","t","o","r">>, "Monitoring">>,
       <<<<"r","e","p","o","r","t">>, "Monitoring">>,
       <<<<"t","e","n","a","n","t">>, "Organization">>,
       <<<<"n","a","m","e","s","p","a","c","e">>, "Organization">>,
       <<<<"u","s","e","r">>, "Organization">>,
       <<<<"r","o","l","e">>, "Organization">>,
       <<<<"r","b","a","c">>, "Organization">>,
       <<<<"c","o","n","t","a","c","t">>, "Organization">>,
       <<<<"s","u","b","s","c","r","i","p","t","i","o","n">>, "Subscriptions">>,
       <<<<"b","i","l","l","i","n","g">>, "Subscriptions">>,
       <<<<"a","d","d","o","n">>, "Subscriptions">>,
       <<<<"k","8","s">>, "Kubernetes">>,
       <<<<"v","i","r","t","u","a","l","_","k","8","s">>, "Kubernetes">>,
       <<<<"v","i","e","w","s",".","w","o","r","k","l","o","a","d">>, "Kubernetes">>,
       <<<<"t","o","k","e","n">>, "Authentication">>,
       <<<<"c","r","e","d","e","n","t","i","a","l">>, "Authentication">>,
       <<<<"s","e","c","r","e","t">>, "Authentication">>,
       <<<<"d","i","s","c","o","v","e","r","y">>, "Authentication">>,
       <<<<"s","e","r","v","i","c","e","_","p","o","l","i","c","y">>, "Security">>,
       <<<<"m","a","l","i","c","i","o","u","s","_","u","s","e","r">>, "Security">>,
       <<<<"r","a","t","e","_","l","i","m","i","t","e","r">>, "Security">>,
       <<<<"v","i","e","w","s",".","r","a","t","e","_","l","i","m","i","t","e","r","_","p","o","l","i","c","y">>, "Security">>,
       <<<<"w","a","f">>, "Security">>,
       <<<<"a","p","p","_","f","i","r","e","w","a","l","l">>, "Security">>,
       <<<<"v","i","e","w","s",".","e","x","t","e","r","n","a","l","_","c","o","n","n","e","c","t","o","r">>, "Integrations">>,
       <<<<"v","i","e","w","s",".","p","r","o","x","y">>, "Networking">>,
       <<<<"v","i","e","w","s",".","t","h","i","r","d","_","p","a","r","t","y","_","a","p","p","l","i","c","a","t","i","o","n">>, "Integrations">>,
       <<<<"v","i","e","w","s",".","t","e","r","r","a","f","o","r","m","_","p","a","r","a","m","e","t","e","r","s">>, "Integrations">>,
       <<<<"v","i","e","w","s",".","t","e","n","a","n","t","_","c","o","n","f","i","g","u","r","a","t","i","o","n">>, "Organization">>,
       <<<<"v","i","e","w","s",".","i","k","e","_","p","h","a","s","e","1","_","p","r","o","f","i","l","e">>, "VPN">>,
       <<<<"v","i","e","w","s",".","i","k","e","_","p","h","a","s","e","2","_","p","r","o","f","i","l","e">>, "VPN">>,
       <<<<"a","i">>, "AI/ML">> >>

RESOURCE_PATTERNS ==
    << <<<<"l","o","a","d","b","a","l","a","n","c","e","r">>, "Load Balancing">>,
       <<<<"_","s","i","t","e">>, "Sites">>,
       <<<<"_","p","o","l","i","c","y">>, "Security">>,
       <<<<"f","i","r","e","w","a","l","l">>, "Security">>,
       <<<<"w","a","f">>, "Security">>,
       <<<<"c","r","e","d","e","n","t","i","a","l">>, "Authentication">>,
       <<<<"s","e","c","r","e","t">>, "Authentication">>,
       <<<<"k","8","s","_">>, "Kubernetes">>,
       <<<<"v","i","r","t","u","a","l","_","k","8","s">>, "Kubernetes">>,
       <<<<"d","n","s","_">>, "DNS">>,
       <<<<"c","e","r","t","i","f","i","c","a","t","e">>, "Certificates">>,
       <<<<"a","l","e","r","t">>, "Monitoring">>,
       <<<<"l","o","g","_">>, "Monitoring">>,
       <<<<"t","e","n","a","n","t">>, "Organization">>,
       <<<<"n","a","m","e","s","p","a","c","e">>, "Organization">>,
       <<<<"u","s","e","r","_">>, "Organization">>,
       <<<<"r","o","l","e">>, "Organization">>,
       <<<<"n","e","t","w","o","r","k">>, "Networking">>,
       <<<<"b","g","p">>, "Networking">>,
       <<<<"t","u","n","n","e","l">>, "Networking">>,
       <<<<"s","u","b","s","c","r","i","p","t","i","o","n">>, "Subscriptions">>,
       <<<<"b","i","l","l","i","n","g">>, "Subscriptions">>,
       <<<<"s","h","a","p","e">>, "Shape Services">>,
       <<<<"b","o","t","_">>, "Bot Defense">>,
       <<<<"a","p","i","_","s","e","c">>, "API Security">>,
       <<<<"i","n","f","r","a","p","r","o","t","e","c","t">>, "Infrastructure Protection">>,
       <<<<"b","i","g","i","p">>, "BIG-IP Integration">> >>

(***************************************************************************)
(* Command and CommandTree                                                 *)
(***************************************************************************)

\* Command(path, short, subcommands): the fields the generator's structure
\* depends on; `short` stands for the descriptive text of the descriptor.
Command(path, short, subcommands) ==
    [path |-> path, short |-> short, subcommands |-> subcommands]

\* A node that does not keep the segment it was created for.
CommandTreeUnnamed(name) == [name |-> <<>>, command |-> <<>>, children |-> <<>>]

\* CommandTree(name=part): no command, no children.  An Optional[Command] is
\* the empty tuple (None) or a 1-tuple holding the command.
CommandTree(name) == [name |-> name, command |-> <<>>, children |-> <<>>]

\* self.tree = CommandTree(name="xcsh").  A tree is a function from the path
\* of each node (the root at <<>>) to the node; `children` holds the keys of
\* the node's dict in insertion order.
EmptyTree == <<>> :> CommandTree(<<"x","c","s","h">>)

\* for part in cmd.path: create the child when absent, then step into it
RECURSIVE Walk(_, _, _)
Walk(t, path, i) ==
    IF i > Len(path) THEN t
    ELSE IF path[i] \in Range(t[SubSeq(path, 1, i - 1)].children)
    THEN Walk(t, path, i + 1)
    ELSE Walk((SubSeq(path, 1, i) :> CommandTree(path[i]))
                 @@ [t EXCEPT ![SubSeq(path, 1, i - 1)].children = Append(@, path[i])],
              path, i + 1)

\* node.command = cmd, for the node reached at the end of cmd.path
SetCommandSkipped(t, cmd) == t

SetCommandKeepFirst(t, cmd) ==
    IF t[cmd.path].command = <<>>
    THEN [t EXCEPT ![cmd.path].command = <<cmd>>]
    ELSE t

\* An assignment that replaces the node: the command is set and the
\* children are dropped.
SetCommandFresh(t, cmd) ==
    [t EXCEPT ![cmd.path] = [name |-> @.name, command |-> <<cmd>>, children |-> <<>>]]

SetCommand(t, cmd) == [t EXCEPT ![cmd.path].command = <<cmd>>]

\* The slip node.add_command(subcmd) for self.add_command(subcmd): every
\* subcommand is placed below the node of its parent.
RECURSIVE add_command_under(_, _, _)
RECURSIVE AddSubcommandsUnder(_, _, _, _)
add_command_under(t, base, cmd) ==
    LET at == base \o cmd.path
    IN  AddSubcommandsUnder([Walk(t, at, 1) EXCEPT ![at].command = <<cmd>>],
                            at, cmd.subcommands, Len(cmd.subcommands))

AddSubcommandsUnder(t, base, subs, n) ==
    IF n = 0 THEN t
    ELSE add_command_under(AddSubcommandsUnder(t, base, subs, n - 1), base, subs[n])

add_command_nested_below(t, cmd) == add_command_under(t, <<>>, cmd)

\* CommandTree.add_command, called on the root
RECURSIVE add_command(_, _)
RECURSIVE AddSubcommands(_, _, _)
add_command(t, cmd) ==
    AddSubcommands(SetCommand(Walk(t, cmd.path, 1), cmd),
                   cmd.subcommands, Len(cmd.subcommands))

\* for subcmd in cmd.subcommands: self.add_command(subcmd); the tree after
\* the first n subcommands
AddSubcommands(t, subs, n) ==
    IF n = 0 THEN t
    ELSE add_command(AddSubcommands(t, subs, n - 1), subs[n])

\* for cmd_dict in self.spec.get("commands", []): self.tree.add_command(cmd);
\* the tree after the first n entries
RECURSIVE LoadCommands(_, _, _)
LoadCommands(t, cmds, n) ==
    IF n = 0 THEN t
    ELSE add_command(LoadCommands(t, cmds, n - 1), cmds[n])

\* A count of every node at or below a node, with or without a command.
count_nodes(t, at) ==
    Cardinality({p \in DOMAIN t : Len(p) >= Len(at) /\ SubSeq(p, 1, Len(at)) = at})

\* VesctlDocsGenerator.count_commands
RECURSIVE count_commands(_, _)
RECURSIVE CountChildren(_, _, _)
count_commands(t, at) ==
    (IF t[at].command # <<>> THEN 1 ELSE 0) + CountChildren(t, at, 1)

CountChildren(t, at, i) ==
    IF i > Len(t[at].children) THEN 0
    ELSE count_commands(t, Append(at, t[at].children[i])) + CountChildren(t, at, i + 1)

\* The paths of the nodes of a tree, and of those that carry a command.
NodePaths(t) == DOMAIN t

CommandPaths(t) == {p \in DOMAIN t : t[p].command # <<>>}

\* The descriptors of a declaration in the order add_command assigns them:
\* the command, then its subcommands, depth first.
RECURSIVE Flatten(_)
RECURSIVE FlattenAll(_, _)
Flatten(cmd) == <<cmd>> \o FlattenAll(cmd.subcommands, 1)

FlattenAll(subs, i) ==
    IF i > Len(subs) THEN <<>>
    ELSE Flatten(subs[i]) \o FlattenAll(subs, i + 1)

\* The same descriptors declared flat: each an entry of the root list,
\* without a subcommands field (Command.from_dict gives [] for it).
RECURSIVE FlatDeclaration(_)
RECURSIVE FlatDeclarations(_, _)
FlatDeclaration(cmd) ==
    <<Command(cmd.path, cmd.short, <<>>)>>
        \o FlatDeclarations(cmd.subcommands, 1)

FlatDeclarations(subs, i) ==
    IF i > Len(subs) THEN <<>>
    ELSE FlatDeclaration(subs[i]) \o FlatDeclarations(subs, i + 1)

RECURSIVE Reverse(_)
Reverse(s) == IF s = <<>> THEN <<>> ELSE Append(Reverse(Tail(s)), Head(s))

\* The command assigned last at each path so far, in the order of assignment.
RECURSIVE Assigned(_, _, _)
Assigned(m, cmds, n) ==
    IF n = 0 THEN m
    ELSE (cmds[n].path :> cmds[n]) @@ Assigned(m, cmds, n - 1)

(***************************************************************************)
(* Canonical action sorter                                                 *)
(***************************************************************************)

\* the default of action_priority.get(..., 999)
UnknownPriority == 999

\* c.path[1] if len(c.path) > 1 else ''
ActionOf(c) == IF Len(c.path) > 1 THEN c.path[2] ELSE <<>>

\* action_priority = {action: i for i, action in enumerate(ACTION_ORDER)};
\* action_priority.get(name, 999)
ActionPriority(name) ==
    IF \E i \in 1..Len(ACTION_ORDER) : ACTION_ORDER[i] = name
    THEN (CHOOSE i \in 1..Len(ACTION_ORDER) : ACTION_ORDER[i] = name) - 1
    ELSE UnknownPriority

sort_actions_unsorted(actions) == actions

sort_actions_by_name(actions) ==
    Sorted(actions,
           [i \in 1..Len(actions) |->
               <<ActionPriority(ActionOf(actions[i]))>> \o Codes(ActionOf(actions[i]))])

\* sort_actions
sort_actions(actions) ==
    Sorted(actions, [i \in 1..Len(actions) |-> <<ActionPriority(ActionOf(actions[i]))>>])

(***************************************************************************)
(* Resource/action collector                                               *)
(***************************************************************************)

\* A dict is the tuple of its <<key, value>> items in insertion order.
Keys(d) == {d[i][1] : i \in 1..Len(d)}

Get(d, k) == d[CHOOSE i \in 1..Len(d) : d[i][1] = k][2]

\* if resource_name not in resources: resources[resource_name] = []
\* resources[resource_name].append(resource_node.command)
AppendTo(d, k, v) ==
    IF k \in Keys(d)
    THEN List([i \in 1..Len(d) |->
                 IF d[i][1] = k THEN <<k, Append(d[i][2], v)>> ELSE d[i]])
    ELSE Append(d, <<k, <<v>>>>)

\* the two nested loops over group_node.children and action_node.children:
\* ai, ri are the positions reached in the two dicts
RECURSIVE CollectLoop(_, _, _, _, _)
CollectLoop(t, group, ai, ri, resources) ==
    IF ai > Len(t[group].children) THEN resources
    ELSE LET action == Append(group, t[group].children[ai])
         IN  IF ri > Len(t[action].children)
             THEN CollectLoop(t, group, ai + 1, 1, resources)
             ELSE LET resource_name == t[action].children[ri]
                      resource_node == t[Append(action, resource_name)]
                  IN  CollectLoop(t, group, ai, ri + 1,
                          IF resource_node.command # <<>>
                          THEN AppendTo(resources, resource_name,
                                        resource_node.command[1])
                          ELSE resources)

\* resources[resource_name] = sorted(..., key=lambda c: c.path[1] ...)
SortByActionName(cmds) ==
    Sorted(cmds, [i \in 1..Len(cmds) |-> Codes(ActionOf(cmds[i]))])

collect_unsorted(t, group) == CollectLoop(t, group, 1, 1, <<>>)

collect_first_action_only(t, group) ==
    LET resources == CollectLoop(t, group, 1, 1, <<>>)
    IN  List([i \in 1..Len(resources) |-> <<resources[i][1], <<resources[i][2][1]>>>>])

\* VesctlDocsGenerator.collect_resources_across_actions
collect_resources_across_actions(t, group) ==
    LET resources == CollectLoop(t, group, 1, 1, <<>>)
    IN  List([i \in 1..Len(resources) |->
                 <<resources[i][1], SortByActionName(resources[i][2])>>])

\* generate_resource_group: the action_name of every entry of action_data,
\* in the order the unified page of the resource lists them
generate_resource_group(actions) ==
    LET sorted_actions == sort_actions(actions)
    IN  List([i \in 1..Len(sorted_actions) |-> ActionOf(sorted_actions[i])])

\* generate_configuration_resource_first: one unified page for every
\* resource of the matrix (the file <group>/<resource>.md), written in
\* the order of sorted(resources.items())
generate_configuration_resource_first(t, group) ==
    LET resources == collect_resources_across_actions(t, group)
        items     == Sorted(resources, [i \in 1..Len(resources) |-> Codes(resources[i][1])])
    IN  List([i \in 1..Len(items) |->
                 <<items[i][1], generate_resource_group(items[i][2])>>])

(***************************************************************************)
(* Category mapper                                                         *)
(***************************************************************************)

\* "ves.io.schema."
RootPrefix == <<"v","e","s",".","i","o",".","s","c","h","e","m","a",".">>

\* path.startswith(prefix) or f".{prefix}" in path or path == prefix
Matches(path, prefix) ==
    \/ StartsWith(path, prefix)
    \/ Contains(path, <<".">> \o prefix)
    \/ path = prefix

PrefixRulesShortestFirst ==
    Sorted(PROTO_PREFIX_MAP,
           [i \in 1..Len(PROTO_PREFIX_MAP) |-> <<Len(PROTO_PREFIX_MAP[i][1])>>])

\* sorted(self.PROTO_PREFIX_MAP.items(), key=lambda x: -len(x[0]))
PrefixRules ==
    Sorted(PROTO_PREFIX_MAP,
           [i \in 1..Len(PROTO_PREFIX_MAP) |-> <<0 - Len(PROTO_PREFIX_MAP[i][1])>>])

\* the position of the first rule of the scan that matches, 0 when none does
RECURSIVE FirstPrefixRule(_, _)
FirstPrefixRule(path, i) ==
    IF i > Len(PrefixRules) THEN 0
    ELSE IF Matches(path, PrefixRules[i][1]) THEN i
    ELSE FirstPrefixRule(path, i + 1)

\* A scan of the pattern table that keeps the last pattern found instead of
\* returning at the first one.
LastPattern(resource_lower, i) ==
    LET found == {k \in i..Len(RESOURCE_PATTERNS) :
                     Contains(resource_lower, RESOURCE_PATTERNS[k][1])}
    IN  IF found = {} THEN 0
        ELSE CHOOSE k \in found : \A m \in found : m <= k

\* for pattern, category in self.RESOURCE_PATTERNS: the position of the
\* first pattern found in resource_lower, 0 when none is
RECURSIVE FirstPattern(_, _)
FirstPattern(resource_lower, i) ==
    IF i > Len(RESOURCE_PATTERNS) THEN 0
    ELSE IF Contains(resource_lower, RESOURCE_PATTERNS[i][1]) THEN i
    ELSE FirstPattern(resource_lower, i + 1)

\* A resolver that tries the resource-name patterns before the prefix
\* rules.
get_category_patterns_first(resource_name, proto_package) ==
    LET path == Remove(proto_package, RootPrefix)
        k    == IF proto_package # <<>> THEN FirstPrefixRule(path, 1) ELSE 0
        j    == FirstPattern(Lower(resource_name), 1)
    IN  IF j > 0 THEN RESOURCE_PATTERNS[j][2]
        ELSE IF k > 0 THEN PrefixRules[k][2]
        ELSE "General"

\* CategoryMapper.get_category; proto_package None or "" is <<>>
get_category(resource_name, proto_package) ==
    LET path == Remove(proto_package, RootPrefix)
        k    == IF proto_package # <<>> THEN FirstPrefixRule(path, 1) ELSE 0
        j    == FirstPattern(Lower(resource_name), 1)
    IN  IF k > 0 THEN PrefixRules[k][2]
        ELSE IF j > 0 THEN RESOURCE_PATTERNS[j][2]
        ELSE "General"

(***************************************************************************)
(* scripts/naming.py: display labels                                       *)
(***************************************************************************)

\* The acronyms that are always written in upper case.
UPPERCASE_ACRONYMS ==
    {
      <<"D","N","S">>, <<"H","T","T","P">>, <<"H","T","T","P","S">>, <<"T","C","P">>,
      <<"U","D","P">>, <<"T","L","S">>, <<"S","S","L">>, <<"S","S","H">>, <<"F","T","P">>,
      <<"S","F","T","P">>, <<"S","M","T","P">>, <<"I","M","A","P">>, <<"P","O","P">>,
      <<"L","D","A","P">>, <<"D","H","C","P">>, <<"A","R","P">>, <<"I","C","M","P">>,
      <<"S","N","M","P">>, <<"N","T","P">>, <<"S","I","P">>, <<"R","T","P">>, <<"R","T","S","P">>,
      <<"Q","U","I","C">>, <<"I","P">>, <<"G","R","P","C">>, <<"A","P","I">>, <<"U","R","L">>,
      <<"U","R","I">>, <<"R","E","S","T">>, <<"S","O","A","P">>, <<"J","S","O","N">>,
      <<"X","M","L">>, <<"H","T","M","L">>, <<"C","S","S">>, <<"C","O","R","S">>, <<"C","D","N">>,
      <<"W","A","F">>, <<"J","W","T">>, <<"S","A","M","L">>, <<"V","P","N">>, <<"N","A","T">>,
      <<"V","L","A","N">>, <<"B","G","P">>, <<"O","S","P","F">>, <<"Q","O","S">>, <<"M","T","U">>,
      <<"T","T","L">>, <<"A","C","L">>, <<"C","I","D","R">>, <<"V","I","P">>, <<"L","B">>,
      <<"H","A">>, <<"D","R">>, <<"P","K","I">>, <<"C","A">>, <<"C","S","R">>, <<"C","R","L">>,
      <<"O","C","S","P">>, <<"P","E","M">>, <<"A","E","S">>, <<"R","S","A">>, <<"S","H","A">>,
      <<"M","D","5">>, <<"H","M","A","C">>, <<"M","F","A">>, <<"S","S","O">>, <<"R","B","A","C">>,
      <<"I","A","M">>, <<"D","D","O","S">>, <<"D","O","S">>, <<"X","S","S">>, <<"C","S","R","F">>,
      <<"S","Q","L">>, <<"A","W","S">>, <<"G","C","P">>, <<"C","P","U">>, <<"R","A","M">>,
      <<"S","S","D">>, <<"H","D","D">>, <<"G","P","U">>, <<"R","A","I","D">>, <<"V","M">>,
      <<"O","S">>, <<"S","L","A">>, <<"R","P","O">>, <<"R","T","O">>, <<"V","P","C">>,
      <<"V","N","E","T">>, <<"T","G","W">>, <<"I","K","E">>, <<"I","D">>, <<"S","L","I">>,
      <<"S","2","S">>, <<"R","E">>, <<"C","E">>, <<"S","P","O">>, <<"S","M","G">>, <<"A","P","M">>,
      <<"P","I","I">>, <<"O","I","D","C">>, <<"K","8","S">>, <<"A","S","M">>, <<"L","T","M">>,
      <<"G","T","M">>, <<"C","N","E">>, <<"X","C">>, <<"S","S","L","O">>, <<"A","F","M">>,
      <<"A","V","R">>, <<"A","S","N">>, <<"S","E","C">>, <<"R","P","C">> }

MIXED_CASE_ACRONYMS ==
    << <<<<"m","t","l","s">>, <<"m","T","L","S">>>>,
       <<<<"o","a","u","t","h">>, <<"O","A","u","t","h">>>>,
       <<<<"g","r","a","p","h","q","l">>, <<"G","r","a","p","h","Q","L">>>>,
       <<<<"w","e","b","s","o","c","k","e","t">>, <<"W","e","b","S","o","c","k","e","t">>>>,
       <<<<"i","s","c","s","i">>, <<"i","S","C","S","I">>>>,
       <<<<"i","p","v","4">>, <<"I","P","v","4">>>>,
       <<<<"i","p","v","6">>, <<"I","P","v","6">>>>,
       <<<<"m","a","c","o","s">>, <<"m","a","c","O","S">>>>,
       <<<<"i","o","s">>, <<"i","O","S">>>>,
       <<<<"n","o","s","q","l">>, <<"N","o","S","Q","L">>>>,
       <<<<"b","i","g","i","p">>, <<"B","I","G","-","I","P">>>>,
       <<<<"i","r","u","l","e">>, <<"i","R","u","l","e">>>> >>

COMPOUND_WORDS_HUMAN_READABLE ==
    << <<<<"l","o","a","d","b","a","l","a","n","c","e","r">>, <<"L","o","a","d"," ","B","a","l","a","n","c","e","r">>>>,
       <<<<"b","i","g","i","p">>, <<"B","I","G","-","I","P">>>>,
       <<<<"w","e","b","s","o","c","k","e","t">>, <<"W","e","b","S","o","c","k","e","t">>>>,
       <<<<"f","a","s","t","c","g","i">>, <<"F","a","s","t","C","G","I">>>>,
       <<<<"o","r","i","g","i","n","p","o","o","l">>, <<"O","r","i","g","i","n"," ","P","o","o","l">>>>,
       <<<<"h","e","a","l","t","h","c","h","e","c","k">>, <<"H","e","a","l","t","h"," ","C","h","e","c","k">>>>,
       <<<<"s","e","r","v","i","c","e","p","o","l","i","c","y">>, <<"S","e","r","v","i","c","e"," ","P","o","l","i","c","y">>>>,
       <<<<"a","p","i","e","n","d","p","o","i","n","t">>, <<"A","P","I"," ","E","n","d","p","o","i","n","t">>>>,
       <<<<"a","p","i","d","e","f","i","n","i","t","i","o","n">>, <<"A","P","I"," ","D","e","f","i","n","i","t","i","o","n">>>>,
       <<<<"a","p","i","s","e","c","u","r","i","t","y">>, <<"A","P","I"," ","S","e","c","u","r","i","t","y">>>> >>

UpperChar(c) ==
    IF Ord(c) >= Ord("a") /\ Ord(c) <= Ord("z")
    THEN Alphabet[Ord(c) - Ord("a") + Ord("A")]
    ELSE c

\* str.upper
Upper(s) == List([i \in 1..Len(s) |-> UpperChar(s[i])])

\* The pieces of s between the characters of seps, empty pieces included
\* (str.split(sep)).
RECURSIVE SplitOn(_, _)
SplitOn(s, seps) ==
    IF \A i \in 1..Len(s) : s[i] \notin seps THEN <<s>>
    ELSE LET i == CHOOSE k \in 1..Len(s) :
                    /\ s[k] \in seps
                    /\ \A j \in 1..(k - 1) : s[j] \notin seps
         IN  <<SubSeq(s, 1, i - 1)>> \o SplitOn(SubSeq(s, i + 1, Len(s)), seps)

\* s.replace("_", " ").replace("-", " ").split(): the words between runs of
\* separators
Words(s) == SelectSeq(SplitOn(s, {"_", "-", " "}), LAMBDA w : w # <<>>)

\* the branch chain of the loop body of to_human_readable for one word
HumanReadableWord(part) ==
    IF Upper(part) \in UPPERCASE_ACRONYMS THEN Upper(part)
    ELSE IF Lower(part) \in Keys(COMPOUND_WORDS_HUMAN_READABLE)
    THEN Get(COMPOUND_WORDS_HUMAN_READABLE, Lower(part))
    ELSE IF Lower(part) \in Keys(MIXED_CASE_ACRONYMS)
    THEN Get(MIXED_CASE_ACRONYMS, Lower(part))
    ELSE <<UpperChar(part[1])>> \o Lower(SubSeq(part, 2, Len(part)))

\* " ".join(result)
RECURSIVE JoinWords(_, _)
JoinWords(ws, n) ==
    IF n = 0 THEN <<>>
    ELSE IF n = 1 THEN ws[1]
    ELSE JoinWords(ws, n - 1) \o <<" ">> \o ws[n]

\* naming.to_human_readable
to_human_readable(s) ==
    LET parts  == Words(s)
        result == List([i \in 1..Len(parts) |-> HumanReadableWord(parts[i])])
    IN  JoinWords(result, Len(result))

(***************************************************************************)
(* Protocol-metadata index                                                 *)
(***************************************************************************)

S_ves_swagger == <<"v","e","s","-","s","w","a","g","g","e","r">>

\* One spec file of the directory: the resource name taken from its file
\* name, whether open/json.load succeed (when they do not, they raise
\* json.JSONDecodeError or IOError), its x-ves-proto-package and the
\* operations of its "paths" in the order of iteration.
SpecFile(resource_name, readable, proto_package) ==
    [resource_name |-> resource_name, readable |-> readable,
     proto_package |-> proto_package, uncaught |-> FALSE, operations |-> <<>>]

\* One operation of a spec: its x-ves-proto-rpc and the url of its
\* externalDocs (none when absent).
Operation(proto_rpc, url) == [proto_rpc |-> proto_rpc, url |-> url]

\* A spec file that parses and documents operations.
DocumentedSpecFile(resource_name, proto_package, operations) ==
    [resource_name |-> resource_name, readable |-> TRUE,
     proto_package |-> proto_package, uncaught |-> FALSE,
     operations |-> operations]

\* A spec file on which the body of the try statement raises an exception
\* that the except clause does not name: UnicodeDecodeError from the read
\* of bytes that are not UTF-8, AttributeError from spec_data.get when the
\* JSON value is not an object.
UndecodableSpecFile(resource_name) ==
    [resource_name |-> resource_name, readable |-> FALSE,
     proto_package |-> <<>>, uncaught |-> TRUE, operations |-> <<>>]

\* An entry that keeps the namespace of the stored file but the category
\* derived from the file at hand.
StoreLastCategory(m, f) ==
    IF f.resource_name \in Keys(m)
    THEN List([i \in 1..Len(m) |->
                 IF m[i][1] = f.resource_name
                 THEN <<m[i][1], [m[i][2] EXCEPT !.category =
                                     get_category(f.resource_name, f.proto_package)]>>
                 ELSE m[i]])
    ELSE Append(m, <<f.resource_name,
                     [spec |-> f.operations,
                      proto_package |-> f.proto_package,
                      category |-> get_category(f.resource_name, f.proto_package)]>>)

\* if resource_name not in self.resource_api_map: store the entry
StoreFirst(m, f) ==
    IF f.resource_name \in Keys(m) THEN m
    ELSE Append(m, <<f.resource_name,
                     [spec |-> f.operations,
                      proto_package |-> f.proto_package,
                      category |-> get_category(f.resource_name, f.proto_package)]>>)

\* load_api_specs: resource_api_map after the first n files
RECURSIVE load_api_specs(_, _, _)
load_api_specs(m, files, n) ==
    IF n = 0 THEN m
    ELSE LET before == load_api_specs(m, files, n - 1)
             f      == files[n]
         IN  IF /\ f.resource_name # <<>>
                /\ f.resource_name # S_ves_swagger
                /\ f.readable
             THEN StoreFirst(before, f)
             ELSE before

\* the try statement is entered for the file and raises past its except
\* clause
RaisesUncaught(f) ==
    /\ f.resource_name # <<>>
    /\ f.resource_name # S_ves_swagger
    /\ f.uncaught

\* the position of the file at which load_api_specs is left by an
\* exception, 0 when it returns
FirstUncaught(files) ==
    LET at == {i \in 1..Len(files) : RaisesUncaught(files[i])}
    IN  IF at = {} THEN 0
        ELSE CHOOSE i \in at : \A j \in at : i <= j

\* A resolution that answers 'General' for a resource without an entry.
get_resource_category_no_fallback(m, resource) ==
    IF resource \in Keys(m) THEN Get(m, resource).category
    ELSE "General"

\* VesctlDocsGenerator.get_resource_category
get_resource_category(m, resource) ==
    IF resource \in Keys(m) THEN Get(m, resource).category
    ELSE get_category(resource, <<>>)

\* action_to_op of get_api_docs_url
action_to_op ==
    << <<<<"c","r","e","a","t","e">>, <<"C","r","e","a","t","e">>>>,
       <<<<"l","i","s","t">>, <<"L","i","s","t">>>>,
       <<<<"g","e","t">>, <<"G","e","t">>>>,
       <<<<"d","e","l","e","t","e">>, <<"D","e","l","e","t","e">>>>,
       <<<<"r","e","p","l","a","c","e">>, <<"R","e","p","l","a","c","e">>>>,
       <<<<"a","p","p","l","y">>, <<"R","e","p","l","a","c","e">>>>,
       <<<<"s","t","a","t","u","s">>, <<"G","e","t">>>>,
       <<<<"p","a","t","c","h">>, <<"R","e","p","l","a","c","e">>>>,
       <<<<"a","d","d","-","l","a","b","e","l","s">>, <<"C","r","e","a","t","e">>>>,
       <<<<"r","e","m","o","v","e","-","l","a","b","e","l","s">>, <<"D","e","l","e","t","e">>>> >>

\* str.endswith
EndsWith(s, p) ==
    Len(p) <= Len(s) /\ SubSeq(s, Len(s) - Len(p) + 1, Len(s)) = p

\* VesctlDocsGenerator.get_api_docs_url: None, or the url of the first
\* operation whose x-ves-proto-rpc ends with .API.<OpName> and that has one
get_api_docs_url(m, resource, action) ==
    IF resource \notin Keys(m) THEN <<>>
    ELSE IF action \notin Keys(action_to_op) THEN <<>>
    ELSE LET spec == Get(m, resource).spec
             suffix == <<".","A","P","I",".">> \o Get(action_to_op, action)
             hits == {i \in 1..Len(spec) :
                         EndsWith(spec[i].proto_rpc, suffix) /\ spec[i].url # <<>>}
         IN  IF hits = {} THEN <<>>
             ELSE spec[CHOOSE i \in hits : \A j \in hits : i <= j].url

\* api_docs_urls of generate_resource_group: the url of every action of
\* the page that has one
ApiDocsUrls(m, resource, action_names) ==
    LET with == SelectSeq(action_names,
                          LAMBDA a : get_api_docs_url(m, resource, a) # <<>>)
    IN  List([i \in 1..Len(with) |->
                 <<with[i], get_api_docs_url(m, resource, with[i])[1]>>])

(***************************************************************************)
(* RPC service grouper                                                     *)
(***************************************************************************)

\* procedure_name.split('.')[0]
extract_rpc_service(procedure_name) == SplitOn(procedure_name, {"."})[1]

\* full_name.split('.')[-1]
extract_rpc_procedure_name(full_name) ==
    LET parts == SplitOn(full_name, {"."})
    IN  parts[Len(parts)]

\* the loop over rpc_node.children.items(): services after the first n
\* children
RECURSIVE RpcLoop(_, _, _)
RpcLoop(t, rpc, n) ==
    IF n = 0 THEN <<>>
    ELSE LET buckets   == RpcLoop(t, rpc, n - 1)
             proc_name == t[rpc].children[n]
             proc_node == t[Append(rpc, proc_name)]
         IN  IF proc_node.command # <<>>
             THEN AppendTo(buckets, extract_rpc_service(proc_name),
                           [full_name |-> proc_name,
                            procedure_name |-> extract_rpc_procedure_name(proc_name),
                            service |-> extract_rpc_service(proc_name),
                            command |-> proc_node.command[1]])
             ELSE buckets

\* A grouping that leaves every bucket in the order of the children.
collect_rpc_unsorted(t, rpc) == RpcLoop(t, rpc, Len(t[rpc].children))

\* VesctlDocsGenerator.collect_rpc_services
collect_rpc_services(t, rpc) ==
    LET buckets == RpcLoop(t, rpc, Len(t[rpc].children))
    IN  List([i \in 1..Len(buckets) |->
                 <<buckets[i][1],
                   Sorted(buckets[i][2],
                          [k \in 1..Len(buckets[i][2]) |->
                              Codes(buckets[i][2][k].procedure_name)])>>])

\* generate_rpc_service_grouped: one unified page per service, written in
\* the order of sorted(services.items())
generate_rpc_service_grouped(t, rpc) ==
    LET grouped == collect_rpc_services(t, rpc)
    IN  Sorted(grouped, [i \in 1..Len(grouped) |-> Codes(grouped[i][1])])

(***************************************************************************)
(* Navigation                                                              *)
(***************************************************************************)

S_request == <<"r","e","q","u","e","s","t">>
S_rpc == <<"r","p","c">>
S_commands_dir == <<"c","o","m","m","a","n","d","s","/">>
S_index_md == <<"/","i","n","d","e","x",".","m","d">>
S_md == <<".","m","d">>
S_Overview == <<" ","O","v","e","r","v","i","e","w">>
S_Commands == <<"C","o","m","m","a","n","d","s">>

\* The characters of a category label.
CategoryLabels ==
    << <<"Load Balancing", <<"L","o","a","d"," ","B","a","l","a","n","c","i","n","g">>>>,
       <<"Sites", <<"S","i","t","e","s">>>>,
       <<"Bot Defense", <<"B","o","t"," ","D","e","f","e","n","s","e">>>>,
       <<"Client-Side Defense", <<"C","l","i","e","n","t","-","S","i","d","e"," ","D","e","f","e","n","s","e">>>>,
       <<"Shape Services", <<"S","h","a","p","e"," ","S","e","r","v","i","c","e","s">>>>,
       <<"API Security", <<"A","P","I"," ","S","e","c","u","r","i","t","y">>>>,
       <<"Infrastructure Protection", <<"I","n","f","r","a","s","t","r","u","c","t","u","r","e"," ","P","r","o","t","e","c","t","i","o","n">>>>,
       <<"BIG-IP Integration", <<"B","I","G","-","I","P"," ","I","n","t","e","g","r","a","t","i","o","n">>>>,
       <<"Networking", <<"N","e","t","w","o","r","k","i","n","g">>>>,
       <<"DNS", <<"D","N","S">>>>,
       <<"Certificates", <<"C","e","r","t","i","f","i","c","a","t","e","s">>>>,
       <<"Monitoring", <<"M","o","n","i","t","o","r","i","n","g">>>>,
       <<"Organization", <<"O","r","g","a","n","i","z","a","t","i","o","n">>>>,
       <<"Subscriptions", <<"S","u","b","s","c","r","i","p","t","i","o","n","s">>>>,
       <<"Kubernetes", <<"K","u","b","e","r","n","e","t","e","s">>>>,
       <<"Authentication", <<"A","u","t","h","e","n","t","i","c","a","t","i","o","n">>>>,
       <<"Security", <<"S","e","c","u","r","i","t","y">>>>,
       <<"Integrations", <<"I","n","t","e","g","r","a","t","i","o","n","s">>>>,
       <<"VPN", <<"V","P","N">>>>,
       <<"AI/ML", <<"A","I","/","M","L">>>>,
       <<"General", <<"G","e","n","e","r","a","l">>>> >>

CategoryChars(category) == Get(CategoryLabels, category)

\* A navigation entry {label: path} and a navigation entry {label: [...]}.
Leaf(label, path) == [label |-> label, path |-> path]

\* A branch that lists its entries from the last to the first.
BranchReversed(label, children) ==
    [label |-> label, children |-> Reverse(children)]

Branch(label, children) == [label |-> label, children |-> children]

\* sorted(names): str order by code point
SortedNames(names) == Sorted(names, [i \in 1..Len(names) |-> Codes(names[i])])

\* The children in the order of the dict.
ChildrenAsInserted(names) == names

\* sorted(node.children.keys())
SortedChildren(names) == SortedNames(names)

\* the keys of a dict in insertion order
KeyList(d) == List([i \in 1..Len(d) |-> d[i][1]])

\* The elements of xs[1..n], each once, in the order of first occurrence.
RECURSIVE Distinct(_, _)
Distinct(xs, n) ==
    IF n = 0 THEN <<>>
    ELSE LET d == Distinct(xs, n - 1)
         IN  IF xs[n] \in Range(d) THEN d ELSE Append(d, xs[n])

\* Categories in plain alphabetical order.
SortedCategoriesAlphabetical(categories) ==
    Sorted(categories,
           [i \in 1..Len(categories) |-> Codes(CategoryChars(categories[i]))])

\* sorted(categorized.keys(), key=lambda c: (c == "General", c))
SortedCategories(categories) ==
    Sorted(categories,
           [i \in 1..Len(categories) |->
               <<IF categories[i] = "General" THEN 1 ELSE 0>>
                   \o Codes(CategoryChars(categories[i]))])

\* VesctlDocsGenerator.build_resource_first_nav
build_resource_first_nav(t, m, group) ==
    LET resources  == KeyList(collect_resources_across_actions(t, <<group>>))
        category   == [i \in 1..Len(resources) |-> get_resource_category(m, resources[i])]
        categories == SortedCategories(Distinct(List(category), Len(resources)))
        Members(c) == SortedNames(SelectSeq(resources,
                          LAMBDA r : get_resource_category(m, r) = c))
        Items(c)   == LET rs == Members(c)
                      IN  List([k \in 1..Len(rs) |->
                                   Leaf(to_human_readable(rs[k]),
                                        S_commands_dir \o group \o <<"/">> \o rs[k] \o S_md)])
    IN  List([i \in 1..Len(categories) |->
                 Branch(CategoryChars(categories[i]), Items(categories[i]))])

\* One entry per service in the order in which the services were first met.
build_rpc_nav_as_inserted(t, group, action, at) ==
    LET names == KeyList(collect_rpc_services(t, at))
    IN  List([i \in 1..Len(names) |->
                 Leaf(to_human_readable(names[i]),
                      S_commands_dir \o group \o <<"/">> \o action \o <<"/">>
                          \o names[i] \o S_md)])

\* VesctlDocsGenerator.build_rpc_service_nav
build_rpc_service_nav(t, group, action, at) ==
    LET names == SortedNames(KeyList(collect_rpc_services(t, at)))
    IN  List([i \in 1..Len(names) |->
                 Leaf(to_human_readable(names[i]),
                      S_commands_dir \o group \o <<"/">> \o action \o <<"/">>
                          \o names[i] \o S_md)])

\* An entry that is a flat file reference at every depth.
LeafEntryFlat(t, at, display_name, path) ==
    Leaf(display_name, S_commands_dir \o path \o S_md)

\* the entry of a node without children: by the depth of its command
LeafEntry(t, at, display_name, path) ==
    IF t[at].command # <<>> /\ Len(t[at].command[1].path) <= 2
    THEN Leaf(display_name, S_commands_dir \o path \o S_index_md)
    ELSE Leaf(display_name, S_commands_dir \o path \o S_md)

\* A selection of the service-grouped layout by the name of the action
\* alone.
NavActionLayoutByName(parent_path, name) ==
    IF name = S_rpc THEN "service-grouped" ELSE "action-first"

\* the layout build_child_nav selects for a node with children
NavActionLayout(parent_path, name) ==
    IF parent_path = S_request /\ name = S_rpc
    THEN "service-grouped"
    ELSE "action-first"

\* VesctlDocsGenerator.build_child_nav; `at` is the place of `node` in the
\* tree
RECURSIVE build_child_nav(_, _, _, _)
build_child_nav(t, parent_path, name, at) ==
    LET display_name == to_human_readable(name)
        path         == parent_path \o <<"/">> \o name
        overview     == Leaf(display_name \o S_Overview,
                             S_commands_dir \o path \o S_index_md)
        names        == SortedChildren(t[at].children)
    IN  IF t[at].children = <<>> THEN LeafEntry(t, at, display_name, path)
        ELSE IF NavActionLayout(parent_path, name) = "service-grouped"
        THEN Branch(display_name,
                    <<overview>> \o build_rpc_service_nav(t, parent_path, name, at))
        ELSE Branch(display_name,
                    <<overview>> \o
                    List([i \in 1..Len(names) |->
                        IF t[Append(at, names[i])].children # <<>>
                        THEN build_child_nav(t, path, names[i], Append(at, names[i]))
                        ELSE LeafEntry(t, Append(at, names[i]),
                                       to_human_readable(names[i]),
                                       path \o <<"/">> \o names[i])]))

\* the layout build_nav_tree selects for a group with children
NavGroupLayout(name) ==
    IF name = S_configuration THEN "resource-first" ELSE "action-first"

\* VesctlDocsGenerator.build_nav_tree
build_nav_tree(t, m, name) ==
    LET display_name == to_human_readable(name)
        index        == S_commands_dir \o name \o S_index_md
        names        == SortedChildren(t[<<name>>].children)
    IN  IF t[<<name>>].children = <<>> THEN Leaf(display_name, index)
        ELSE Branch(display_name,
                    <<Leaf(display_name \o S_Overview, index)>> \o
                    (IF NavGroupLayout(name) = "resource-first"
                     THEN build_resource_first_nav(t, m, name)
                     ELSE List([i \in 1..Len(names) |->
                              build_child_nav(t, name, names[i], <<name, names[i]>>)])))

\* A navigation that lists the groups in the order of the dict.
generate_navigation_as_inserted(t, m) ==
    LET groups == t[<<>>].children
    IN  <<Leaf(S_Commands, S_commands_dir \o SubSeq(S_index_md, 2, Len(S_index_md)))>> \o
        List([i \in 1..Len(groups) |-> build_nav_tree(t, m, groups[i])])

\* VesctlDocsGenerator.generate_navigation
generate_navigation(t, m) ==
    LET groups == SortedNames(t[<<>>].children)
    IN  <<Leaf(S_Commands, S_commands_dir \o SubSeq(S_index_md, 2, Len(S_index_md)))>> \o
        List([i \in 1..Len(groups) |-> build_nav_tree(t, m, groups[i])])

\* the layout generate_command_group selects for the pages of a group
PageGroupLayout(name) ==
    IF name = S_configuration THEN "resource-first" ELSE "action-first"

\* the layout generate_action selects for the pages of an action
PageActionLayout(group, action) ==
    IF group = S_request /\ action = S_rpc
    THEN "service-grouped"
    ELSE "action-first"

(***************************************************************************)
(* The files written                                                       *)
(***************************************************************************)

S_meta_yml == <<"/",".","m","e","t","a",".","y","m","l">>
S_nav_yml == <<"_","n","a","v",".","y","m","l">>

\* the concatenation of the first n sequences of a sequence
RECURSIVE Concat(_, _)
Concat(seqs, n) ==
    IF n = 0 THEN <<>> ELSE Concat(seqs, n - 1) \o seqs[n]

\* the children of a node that carry a command, in the order of the dict
ChildrenWithCommand(t, at) ==
    SelectSeq(t[at].children, LAMBDA c : t[Append(at, c)].command # <<>>)

\* VesctlDocsGenerator.generate_action: the files it writes, in order, each
\* by its path below docs/
generate_action(t, group, action) ==
    LET at        == <<group, action>>
        dir       == S_commands_dir \o group \o <<"/">> \o action
        grouped   == generate_rpc_service_grouped(t, at)
        resources == ChildrenWithCommand(t, at)
    IN  IF t[at].command = <<>> THEN <<>>
        ELSE <<dir \o S_index_md, dir \o S_meta_yml>> \o
             (IF PageActionLayout(group, action) = "service-grouped"
              THEN List([i \in 1..Len(grouped) |->
                            dir \o <<"/">> \o grouped[i][1] \o S_md])
              ELSE List([i \in 1..Len(resources) |->
                            dir \o <<"/">> \o resources[i] \o S_md]))

\* VesctlDocsGenerator.generate_command_group: the files it writes
WrittenForGroup(t, name) ==
    LET dir     == S_commands_dir \o name
        unified == generate_configuration_resource_first(t, <<name>>)
        actions == ChildrenWithCommand(t, <<name>>)
    IN  IF t[<<name>>].command = <<>> THEN <<>>
        ELSE <<dir \o S_index_md, dir \o S_meta_yml>> \o
             (IF PageGroupLayout(name) = "resource-first"
              THEN List([i \in 1..Len(unified) |->
                            dir \o <<"/">> \o unified[i][1] \o S_md])
              ELSE Concat([i \in 1..Len(actions) |->
                              generate_action(t, name, actions[i])],
                          Len(actions)))

\* generated_files at the end of generate_all: the index, the files of
\* every group in the order of the dict, and the navigation file
WrittenFiles(t) ==
    LET groups == t[<<>>].children
    IN  <<S_commands_dir \o SubSeq(S_index_md, 2, Len(S_index_md))>> \o
        Concat([i \in 1..Len(groups) |-> WrittenForGroup(t, groups[i])], Len(groups)) \o
        <<S_commands_dir \o S_nav_yml>>

(***************************************************************************)
(* Inputs                                                                  *)
(***************************************************************************)

\* Number of entries of the root command list that load_spec inserts.
MaxAdds == 2

Cfg == <<S_configuration>>

Segments == <<S_list, S_get, S_namespace, S_pool, S_detail>>

\* The paths of the descriptors: the empty path, the group, its actions, the
\* resources of each action and one path below a resource.
PathUniverse ==
    {<<>>, Cfg}
    \cup {Append(Cfg, a) : a \in {S_list, S_get}}
    \cup {<<S_configuration, a, r>> : a \in {S_list, S_get}, r \in {S_namespace, S_pool}}
    \cup {<<S_configuration, S_list, S_namespace, S_detail>>}

Shorts == {"s1", "s2"}

LeafCommands == {Command(p, s, <<>>) : p \in PathUniverse, s \in Shorts}

Descendants(p) ==
    {q \in PathUniverse : Len(q) > Len(p) /\ SubSeq(q, 1, Len(p)) = p}

\* The sets of paths below p that a nested declaration rooted at p can hold:
\* every path is the child of p or of another path of the set.
DeclarationPaths(p) ==
    {S \in SUBSET Descendants(p) :
        /\ S # {}
        /\ \A q \in S : Len(q) = Len(p) + 1 \/ SubSeq(q, 1, Len(q) - 1) \in S}

\* The descriptor at p with the descriptors of S nested in subcommands
\* fields, each under its parent, with its fully-qualified path.
RECURSIVE Nest(_, _)
Nest(S, p) ==
    LET kids == SelectSeq(Segments, LAMBDA s : Append(p, s) \in S)
    IN  Command(p, "s1",
                List([i \in 1..Len(kids) |-> Nest(S, Append(p, kids[i]))]))

NestedCommands ==
    UNION {{Nest(S, p) : S \in DeclarationPaths(p)} : p \in PathUniverse \ {<<>>}}

Commands == LeafCommands \cup NestedCommands

NoAssignment == <<>>

(***************************************************************************)
(* Generation                                                              *)
(***************************************************************************)

\* generate_command_group for the group "configuration": nothing without a
\* descriptor of the group itself, else the resource-first pages.
generate_command_group(t, group) ==
    IF t[group].command = <<>> THEN <<>>
    ELSE generate_configuration_resource_first(t, group)

(***************************************************************************)
(* The generator: load_spec, then generate_all                             *)
(***************************************************************************)

Init ==
    /\ tree = EmptyTree
    /\ tree2 = EmptyTree
    /\ adds = 0
    /\ adds2 = 0
    /\ arg = <<>>
    /\ lastAt = NoAssignment
    /\ overwrote = FALSE
    /\ pc = "loading"
    /\ matrix = <<>>
    /\ pages = <<>>
    /\ sortIn = <<>>
    /\ sortOut = <<>>
    /\ catIn = [resource_name |-> <<>>, proto_package |-> <<>>]
    /\ catOut = ""
    /\ api_specs_dir = <<>>
    /\ resource_api_map = <<>>
    /\ nav = <<>>
    /\ subcats = <<>>
    /\ services = <<>>
    /\ total = 0
    /\ api_docs_urls = <<>>
    /\ generated_files = <<>>

\* One entry of the root list: self.tree.add_command(cmd).  tree2 is a second
\* generator that is given the same descriptors declared flat.
AddCommand(cmd) ==
    /\ pc = "loading"
    /\ adds < MaxAdds
    /\ tree' = add_command(tree, cmd)
    /\ tree2' = LoadCommands(tree2, Reverse(FlatDeclaration(cmd)),
                              Len(FlatDeclaration(cmd)))
    /\ adds' = adds + 1
    /\ arg' = <<cmd>>
    /\ lastAt' = Assigned(lastAt, Flatten(cmd), Len(Flatten(cmd)))
    /\ overwrote' = (overwrote \/ \E c \in Range(Flatten(cmd)) :
                                    /\ c.path \in CommandPaths(tree)
                                    /\ tree[c.path].command # <<c>>)
    /\ UNCHANGED <<adds2, pc, matrix, pages, sortIn, sortOut, catIn, catOut,
                   genVars>>

\* generate_all once load_api_specs has returned: the index, the
\* resource/action matrix of the configuration group with its unified
\* resource pages, the category and the documentation links written on
\* each, the services of request/rpc, the navigation and the count of
\* commands.
GenerateAllLoaded ==
    /\ pc' = "generated"
    /\ resource_api_map' = load_api_specs(resource_api_map, api_specs_dir, Len(api_specs_dir))
    /\ matrix' = IF Cfg \in DOMAIN tree
                 THEN collect_resources_across_actions(tree, Cfg)
                 ELSE <<>>
    /\ pages' = IF Cfg \in DOMAIN tree
                THEN generate_command_group(tree, Cfg)
                ELSE <<>>
    /\ subcats' = List([i \in 1..Len(pages') |->
                      <<pages'[i][1],
                        get_resource_category(resource_api_map', pages'[i][1])>>])
    /\ api_docs_urls' = List([i \in 1..Len(pages') |->
                            <<pages'[i][1],
                              ApiDocsUrls(resource_api_map', pages'[i][1], pages'[i][2])>>])
    /\ services' = IF /\ <<S_request, S_rpc>> \in DOMAIN tree
                      /\ tree[<<S_request>>].command # <<>>
                      /\ tree[<<S_request, S_rpc>>].command # <<>>
                   THEN generate_rpc_service_grouped(tree, <<S_request, S_rpc>>)
                   ELSE <<>>
    /\ nav' = generate_navigation(tree, resource_api_map')
    /\ generated_files' = WrittenFiles(tree)
    /\ total' = count_commands(tree, <<>>)

\* generate_all: load_api_specs first; an exception that leaves it ends the
\* run with the index as it stood.
GenerateAll ==
    /\ pc = "loading"
    /\ IF FirstUncaught(api_specs_dir) > 0
       THEN /\ pc' = "failed"
            /\ resource_api_map' = load_api_specs(resource_api_map, api_specs_dir,
                                                  FirstUncaught(api_specs_dir) - 1)
            /\ UNCHANGED <<matrix, pages, subcats, services, nav, total,
                           api_docs_urls, generated_files>>
       ELSE GenerateAllLoaded
    /\ UNCHANGED <<tree, tree2, adds, adds2, arg, lastAt, overwrote,
                   sortIn, sortOut, catIn, catOut, api_specs_dir>>

Next ==
    \/ \E cmd \in Commands : AddCommand(cmd)
    \/ GenerateAll

Spec == Init /\ [][Next]_vars

(***************************************************************************)
(* Claims on the tree builder (specification Spec)                         *)
(***************************************************************************)

Prefixes(p) == {SubSeq(p, 1, i) : i \in 1..Len(p)}

\* C1: after any sequence of add_command calls, every inserted command with
\* a non-empty path (nested subcommands included) has a tree node at every
\* non-empty prefix of its path, and the node at its full path carries a
\* command.
C1_PrefixNodesExist ==
    \A p \in DOMAIN lastAt :
        p # <<>> =>
            /\ Prefixes(p) \subseteq NodePaths(tree)
            /\ tree[p].command # <<>>

\* C1 witness: a declaration nested two levels deep has been inserted and a
\* path of three segments carries a command.
C1_Witness ==
    /\ arg # <<>>
    /\ \E i \in 1..Len(arg[1].subcommands) : arg[1].subcommands[i].subcommands # <<>>
    /\ \E p \in DOMAIN lastAt : Len(p) >= 3 /\ tree[p].command # <<>>

\* C2: the nested declaration (tree) and the flat declaration of the same
\* commands (tree2) give the same node paths and the same command-carrying
\* paths, and every command sits at its own path from the root.
C2_FlatAndNestedAgree ==
    /\ NodePaths(tree) = NodePaths(tree2)
    /\ CommandPaths(tree) = CommandPaths(tree2)
    /\ \A p \in CommandPaths(tree) :
          /\ tree[p].command[1].path = p
          /\ tree2[p].command[1].path = p

\* C2 witness: a declaration with subcommands nested two levels deep was
\* inserted, and the two generators hold different command objects.
C2_Witness ==
    /\ arg # <<>>
    /\ \E i \in 1..Len(arg[1].subcommands) : arg[1].subcommands[i].subcommands # <<>>
    /\ Len(Flatten(arg[1])) >= 4
    /\ tree # tree2

\* C3 (as claimed): inserting a descriptor with an empty path leaves the tree
\* unchanged: no node gains a command and count_commands is unchanged.
C3_EmptyPathRejected ==
    [][(adds' = adds + 1 /\ arg'[1].path = <<>>) =>
          /\ tree' = tree
          /\ count_commands(tree', <<>>) = count_commands(tree, <<>>)]_vars

\* C4: when two commands with the same full path are inserted one after the
\* other, the node at that path carries the command inserted last.
C4_LastWriteWins ==
    \A p \in DOMAIN lastAt :
        /\ p \in NodePaths(tree)
        /\ tree[p].command = <<lastAt[p]>>

\* C4 witness: a path that carried a command has been assigned another one.
C4_Witness ==
    /\ overwrote
    /\ \E p \in DOMAIN lastAt : p # <<>> /\ tree[p].command = <<lastAt[p]>>

(***************************************************************************)
(* Claims on the resource/action collector (specification Spec)            *)
(***************************************************************************)

\* the keys of a command list are in canonical action order
CanonicalOrder(cmds) ==
    \A i, j \in 1..Len(cmds) :
        i < j => ActionPriority(ActionOf(cmds[i])) <= ActionPriority(ActionOf(cmds[j]))

\* C5 (as claimed): collect returns every resource's commands in canonical
\* action order, e.g. [list, get] for the resource namespace.
C5_CollectCanonical ==
    pc = "generated" =>
        \A i \in 1..Len(matrix) : CanonicalOrder(matrix[i][2])

\* The action children of the group that have a child `r` carrying a command.
ActionsOf(t, group, r) ==
    {a \in Range(t[group].children) :
        /\ r \in Range(t[Append(group, a)].children)
        /\ t[<<group[1], a, r>>].command # <<>>}

ResourcesOf(t, group) ==
    {r \in UNION {Range(t[Append(group, a)].children) : a \in Range(t[group].children)} :
        ActionsOf(t, group, r) # {}}

\* C7: the matrix holds a resource exactly when some action child of the
\* group has a child of that name carrying a command; its list holds exactly
\* one command for each such action and is never empty.
C7_MatrixContents ==
    (pc = "generated" /\ Cfg \in NodePaths(tree)) =>
        /\ Keys(matrix) = ResourcesOf(tree, Cfg)
        /\ \A i, j \in 1..Len(matrix) : matrix[i][1] = matrix[j][1] => i = j
        /\ \A i \in 1..Len(matrix) :
              LET r    == matrix[i][1]
                  cmds == matrix[i][2]
              IN  /\ Len(cmds) > 0
                  /\ Len(cmds) = Cardinality(ActionsOf(tree, Cfg, r))
                  /\ \A a \in ActionsOf(tree, Cfg, r) :
                        \E k \in 1..Len(cmds) :
                            cmds[k] = tree[<<Cfg[1], a, r>>].command[1]

\* C7 witness: the matrix has been collected from a tree in which one
\* resource has two actions, another has one, and a resource node without a
\* command is left out.
C7_Witness ==
    /\ pc = "generated"
    /\ Cfg \in NodePaths(tree)
    /\ \E i, j \in 1..Len(matrix) : Len(matrix[i][2]) = 2 /\ Len(matrix[j][2]) = 1
    /\ \E a \in Range(tree[Cfg].children) :
          \E r \in Range(tree[Append(Cfg, a)].children) :
              tree[<<Cfg[1], a, r>>].command = <<>>

(***************************************************************************)
(* Two generators loaded with commands in independent orders               *)
(***************************************************************************)

\* Number of add_command calls on each of the two trees.
MaxPairAdds == 4

\* The group descriptor and the descriptors of four actions on one resource:
\* two actions of ACTION_ORDER and two that are not in it.
PairCommands ==
    {Command(Cfg, "s1", <<>>)}
    \cup {Command(<<S_configuration, a, S_namespace>>, "s1", <<>>) :
             a \in {S_list, S_get, S_zeta, S_alpha}}

AddFirst(cmd) ==
    /\ adds < MaxPairAdds
    /\ tree' = add_command(tree, cmd)
    /\ adds' = adds + 1
    /\ UNCHANGED <<tree2, adds2, arg, lastAt, overwrote, pc, matrix, pages,
                   sortIn, sortOut, catIn, catOut,
                   genVars>>

AddSecond(cmd) ==
    /\ adds2 < MaxPairAdds
    /\ tree2' = add_command(tree2, cmd)
    /\ adds2' = adds2 + 1
    /\ UNCHANGED <<tree, adds, arg, lastAt, overwrote, pc, matrix, pages,
                   sortIn, sortOut, catIn, catOut,
                   genVars>>

NextPair ==
    \/ \E cmd \in PairCommands : AddFirst(cmd)
    \/ \E cmd \in PairCommands : AddSecond(cmd)

SpecPair == Init /\ [][NextPair]_vars

\* The commands a tree carries, each with its path.
Carried(t) == {<<p, t[p].command>> : p \in CommandPaths(t)}

\* A dict as the mapping it is (dict equality ignores the order of the keys).
AsMap(d) == {<<d[i][1], d[i][2]>> : i \in 1..Len(d)}

\* C6: for commands with pairwise distinct paths under one group, the matrix
\* returned by collect_resources_across_actions has the same resources and
\* the same per-resource command order whatever the insertion order.
C6_MatrixOrderIndependent ==
    (Carried(tree) = Carried(tree2) /\ Cfg \in NodePaths(tree)) =>
        AsMap(collect_resources_across_actions(tree, Cfg))
            = AsMap(collect_resources_across_actions(tree2, Cfg))

\* C6 witness: the two trees carry the same commands, inserted in different
\* orders, and a resource has several actions.
C6_Witness ==
    /\ Carried(tree) = Carried(tree2)
    /\ Cfg \in NodePaths(tree)
    /\ tree[Cfg].children # tree2[Cfg].children
    /\ Len(tree[Cfg].children) >= 3
    /\ \E i \in 1..Len(collect_resources_across_actions(tree, Cfg)) :
          Len(collect_resources_across_actions(tree, Cfg)[i][2]) >= 3

\* the action names of a page are in canonical action order
CanonicalPage(page) ==
    \A i, j \in 1..Len(page) :
        i < j => ActionPriority(page[i]) <= ActionPriority(page[j])

\* C9: the unified resource page lists the resource's actions in canonical
\* action order (known actions in ACTION_ORDER priority, then the unknown
\* ones), and the order does not depend on the insertion order.
C9_PageOrder ==
    LET pages1 == IF Cfg \in NodePaths(tree) THEN generate_command_group(tree, Cfg) ELSE <<>>
        pages2 == IF Cfg \in NodePaths(tree2) THEN generate_command_group(tree2, Cfg) ELSE <<>>
    IN  /\ \A i \in 1..Len(pages1) : CanonicalPage(pages1[i][2])
        /\ \A i \in 1..Len(pages2) : CanonicalPage(pages2[i][2])
        /\ Carried(tree) = Carried(tree2) => pages1 = pages2

\* C9 witness: the same commands inserted in different orders, with a page
\* that lists known actions before an unknown one.
C9_Witness ==
    /\ Carried(tree) = Carried(tree2)
    /\ Cfg \in CommandPaths(tree)
    /\ tree[Cfg].children # tree2[Cfg].children
    /\ \E i \in 1..Len(generate_command_group(tree, Cfg)) :
          LET page == generate_command_group(tree, Cfg)[i][2]
          IN  /\ Len(page) = 3
              /\ page[1] = S_list
              /\ page[2] = S_get
              /\ ActionPriority(page[3]) = UnknownPriority

(***************************************************************************)
(* sort_actions as a function of its argument                              *)
(***************************************************************************)

\* Length of the command list given to sort_actions.
MaxSortLen == 5

\* Commands of five actions on one resource, and a command whose path has
\* no action segment.
SortItems ==
    {Command(<<S_configuration, a, S_namespace>>, "s1", <<>>) :
        a \in {S_status, S_list, S_custom2, S_get, S_custom1}}
    \cup {Command(Cfg, "s1", <<>>)}

SortInputs == UNION {[1..n -> SortItems] : n \in 0..MaxSortLen}

InitSort ==
    /\ tree = EmptyTree
    /\ tree2 = EmptyTree
    /\ adds = 0
    /\ adds2 = 0
    /\ arg = <<>>
    /\ lastAt = NoAssignment
    /\ overwrote = FALSE
    /\ pc = "input"
    /\ matrix = <<>>
    /\ pages = <<>>
    /\ sortIn \in SortInputs
    /\ sortOut = <<>>
    /\ catIn = [resource_name |-> <<>>, proto_package |-> <<>>]
    /\ catOut = ""
    /\ api_specs_dir = <<>>
    /\ resource_api_map = <<>>
    /\ nav = <<>>
    /\ subcats = <<>>
    /\ services = <<>>
    /\ total = 0
    /\ api_docs_urls = <<>>
    /\ generated_files = <<>>

SortActions ==
    /\ pc = "input"
    /\ pc' = "sorted"
    /\ sortOut' = sort_actions(sortIn)
    /\ UNCHANGED <<tree, tree2, adds, adds2, arg, lastAt, overwrote, matrix, pages,
                   sortIn, catIn, catOut,
                   genVars>>

NextSort == SortActions

SpecSort == InitSort /\ [][NextSort]_vars

ActionNames(cmds) == List([i \in 1..Len(cmds) |-> ActionOf(cmds[i])])

Known(name) == \E i \in 1..Len(ACTION_ORDER) : ACTION_ORDER[i] = name

\* the position in ACTION_ORDER, for a known action
IndexInOrder(name) == CHOOSE i \in 1..Len(ACTION_ORDER) : ACTION_ORDER[i] = name

\* the sort key classes: each known action, and the unknown actions together
SameKey(a, b) == (Known(a) /\ a = b) \/ (~Known(a) /\ ~Known(b))

\* C8: sort_actions returns the input stably sorted by the index of the
\* action in ACTION_ORDER: known actions in ACTION_ORDER order, unknown ones
\* after every known one, equal keys in input order; e.g.
\* [status, list, custom2, get, custom1] gives [list, get, status, custom2,
\* custom1].
C8_StableCanonicalSort ==
    pc = "sorted" =>
        /\ Len(sortOut) = Len(sortIn)
        /\ \A i, j \in 1..Len(sortOut) :
              i < j =>
                  LET a == ActionOf(sortOut[i])
                      b == ActionOf(sortOut[j])
                  IN  /\ Known(b) => Known(a)
                      /\ (Known(a) /\ Known(b)) => IndexInOrder(a) <= IndexInOrder(b)
        /\ \A c \in SortItems :
              SelectSeq(sortOut, LAMBDA x : SameKey(ActionOf(x), ActionOf(c)))
                  = SelectSeq(sortIn, LAMBDA x : SameKey(ActionOf(x), ActionOf(c)))
        /\ ActionNames(sortIn) = <<S_status, S_list, S_custom2, S_get, S_custom1>>
              => ActionNames(sortOut) = <<S_list, S_get, S_status, S_custom2, S_custom1>>

\* C8 witness: the example of the claim has been sorted.
C8_Witness ==
    /\ pc = "sorted"
    /\ ActionNames(sortIn) = <<S_status, S_list, S_custom2, S_get, S_custom1>>
    /\ ActionNames(sortOut) = <<S_list, S_get, S_status, S_custom2, S_custom1>>

(***************************************************************************)
(* get_category as a function of its arguments                             *)
(***************************************************************************)

\* Number of dot-separated segments of a protocol namespace.
MaxNsSegs == 2

NsSegments ==
    { <<"s","h","a","p","e">>,
      <<"b","o","t","_","d","e","f","e","n","s","e">>,
      <<"v","i","e","w","s">>,
      <<"h","t","t","p","_","l","o","a","d","b","a","l","a","n","c","e","r">>,
      <<"d","n","s">>,
      <<"c","r","l">>,
      <<"m","i","s","c">> }

ResourceNames ==
    { <<"n","a","m","e","s","p","a","c","e">>,
      <<"n","e","t","w","o","r","k","_","p","o","l","i","c","y">>,
      <<"H","T","T","P","_","L","o","a","d","B","a","l","a","n","c","e","r">>,
      <<"w","i","d","g","e","t">> }

\* ".".join(segs)
RECURSIVE Join(_)
Join(segs) ==
    IF Len(segs) = 1 THEN segs[1]
    ELSE segs[1] \o <<".">> \o Join(Tail(segs))

\* No namespace, and the namespaces of 1..MaxNsSegs segments: each as it is,
\* behind the root prefix, and behind the root prefix preceded by a letter.
Namespaces ==
    LET dotted == {Join(segs) : segs \in UNION {[1..n -> NsSegments] : n \in 1..MaxNsSegs}}
    IN  {<<>>} \cup dotted \cup {RootPrefix \o d : d \in dotted}
               \cup {<<"x">> \o RootPrefix \o d : d \in dotted}

InitCategory ==
    /\ tree = EmptyTree
    /\ tree2 = EmptyTree
    /\ adds = 0
    /\ adds2 = 0
    /\ arg = <<>>
    /\ lastAt = NoAssignment
    /\ overwrote = FALSE
    /\ pc = "input"
    /\ matrix = <<>>
    /\ pages = <<>>
    /\ sortIn = <<>>
    /\ sortOut = <<>>
    /\ catIn \in [resource_name : ResourceNames, proto_package : Namespaces]
    /\ catOut = ""
    /\ api_specs_dir = <<>>
    /\ resource_api_map = <<>>
    /\ nav = <<>>
    /\ subcats = <<>>
    /\ services = <<>>
    /\ total = 0
    /\ api_docs_urls = <<>>
    /\ generated_files = <<>>

GetCategory ==
    /\ pc = "input"
    /\ pc' = "resolved"
    /\ catOut' = get_category(catIn.resource_name, catIn.proto_package)
    /\ UNCHANGED <<tree, tree2, adds, adds2, arg, lastAt, overwrote, matrix, pages,
                   sortIn, sortOut, catIn,
                   genVars>>

NextCategory == GetCategory

SpecCategory == InitCategory /\ [][NextCategory]_vars

\* the rules of the namespace-prefix table that match a stripped path
MatchingRules(path) ==
    {i \in 1..Len(PROTO_PREFIX_MAP) : Matches(path, PROTO_PREFIX_MAP[i][1])}

S_shape_bot_defense == <<"s","h","a","p","e",".","b","o","t","_","d","e","f","e","n","s","e">>

\* C10: when a namespace is given and several rules of the prefix table
\* match the stripped path, get_category returns the category of a longest
\* matching prefix (shape.bot_defense resolves by the rule
\* 'shape.bot_defense', not by 'shape').
C10_LongestPrefixWins ==
    (pc = "resolved" /\ catIn.proto_package # <<>>) =>
        LET path == Remove(catIn.proto_package, RootPrefix)
            M    == MatchingRules(path)
        IN  /\ M # {} =>
                  \E i \in M :
                      /\ \A j \in M : Len(PROTO_PREFIX_MAP[j][1]) <= Len(PROTO_PREFIX_MAP[i][1])
                      /\ catOut = PROTO_PREFIX_MAP[i][2]
            /\ path = S_shape_bot_defense => catOut = "Bot Defense"

\* C10 witness: a namespace ending in shape.bot_defense, which the rules
\* 'shape.bot_defense' and 'shape' both match, has been resolved.
C10_Witness ==
    /\ pc = "resolved"
    /\ catIn.proto_package = RootPrefix \o S_shape_bot_defense
    /\ Cardinality(MatchingRules(S_shape_bot_defense)) >= 2
    /\ catOut = "Bot Defense"

S_network_policy == <<"n","e","t","w","o","r","k","_","p","o","l","i","c","y">>

\* C11: the pattern table is consulted only when no namespace is given or
\* no prefix rule matches it.  When some prefix rule matches the namespace
\* the result is the category of a matching rule and is the same for every
\* resource name; when no rule matches, the result is the one obtained for
\* the resource name without a namespace.
C11_PatternsOnlyAsFallback ==
    pc = "resolved" =>
        LET path == Remove(catIn.proto_package, RootPrefix)
            M    == IF catIn.proto_package = <<>> THEN {} ELSE MatchingRules(path)
        IN  /\ M # {} =>
                  /\ catOut \in {PROTO_PREFIX_MAP[i][2] : i \in M}
                  /\ \A r \in ResourceNames :
                         get_category(r, catIn.proto_package) = catOut
            /\ M = {} => catOut = get_category(catIn.resource_name, <<>>)

\* C11 witness: a resource name that the patterns alone place in one
\* category has been resolved, with a namespace that a prefix rule matches,
\* to another category.
C11_Witness ==
    /\ pc = "resolved"
    /\ catIn.resource_name = S_network_policy
    /\ catIn.proto_package = <<"d","n","s">>
    /\ get_category(S_network_policy, <<>>) = "Security"
    /\ catOut = "DNS"

\* the patterns of the table that are substrings of a lowercased name
MatchingPatterns(resource_lower) ==
    {i \in 1..Len(RESOURCE_PATTERNS) : Contains(resource_lower, RESOURCE_PATTERNS[i][1])}

\* C12: when the namespace tier yields no match, the result is the category
\* of the first pattern, in the declared order of the table, that is a
\* substring of the lowercased resource name (network_policy resolves by
\* '_policy', declared before 'network'), and it is 'General' exactly when
\* no pattern is a substring.
C12_FirstPatternWins ==
    LET path == Remove(catIn.proto_package, RootPrefix)
        M    == IF catIn.proto_package = <<>> THEN {} ELSE MatchingRules(path)
        P    == MatchingPatterns(Lower(catIn.resource_name))
    IN  (pc = "resolved" /\ M = {}) =>
            /\ P = {} <=> catOut = "General"
            /\ P # {} =>
                  catOut = RESOURCE_PATTERNS[CHOOSE i \in P : \A j \in P : i <= j][2]
            /\ catIn.resource_name = S_network_policy => catOut = "Security"

\* C12 witness: network_policy, which holds both '_policy' and the later
\* pattern 'network' of another category, has been resolved with a
\* namespace that no prefix rule matches.
C12_Witness ==
    /\ pc = "resolved"
    /\ catIn.resource_name = S_network_policy
    /\ catIn.proto_package = <<"m","i","s","c">>
    /\ MatchingRules(<<"m","i","s","c">>) = {}
    /\ \E i, j \in MatchingPatterns(S_network_policy) :
          /\ i < j
          /\ RESOURCE_PATTERNS[i][2] = "Security"
          /\ RESOURCE_PATTERNS[j][2] = "Networking"
    /\ catOut = "Security"

\* the namespace without the root prefix it begins with
StripLeadingRoot(ns) ==
    IF StartsWith(ns, RootPrefix)
    THEN SubSeq(ns, Len(RootPrefix) + 1, Len(ns))
    ELSE ns

\* the two tiers of the resolution applied to a path
CategoryOfPath(path, resource_name) ==
    LET k == FirstPrefixRule(path, 1)
        j == FirstPattern(Lower(resource_name), 1)
    IN  IF k > 0 THEN PrefixRules[k][2]
        ELSE IF j > 0 THEN RESOURCE_PATTERNS[j][2]
        ELSE "General"

\* C13 (as claimed): the rules are matched against the namespace without
\* the root prefix when the namespace begins with it, and against the
\* namespace unchanged when it does not begin with it.
C13_StripsLeadingRootOnly ==
    (pc = "resolved" /\ catIn.proto_package # <<>>) =>
        catOut = CategoryOfPath(StripLeadingRoot(catIn.proto_package),
                                catIn.resource_name)

(***************************************************************************)
(* load_spec, then generate_all, on groups of every layout                 *)
(***************************************************************************)

\* Number of entries of the root command list of the spec.
MaxNavAdds == 3

S_site == <<"s","i","t","e">>
S_api_endpoint == <<"a","p","i","-","e","n","d","p","o","i","n","t">>
S_api_credential == <<"a","p","i","_","c","r","e","d","e","n","t","i","a","l">>
S_ipv4 == <<"i","p","v","4">>
S_bgp == <<"b","g","p">>
S_widget == <<"w","i","d","g","e","t">>
S_firewall == <<"f","i","r","e","w","a","l","l">>
S_dns_Zone_List == <<"d","n","s",".","Z","o","n","e",".","L","i","s","t">>

\* The paths of the descriptors: a resource-first group with resources of
\* three categories, an action-first group, and request/rpc.
NavPaths ==
    { <<S_configuration>>,
      <<S_configuration, S_list, S_bgp>>,
      <<S_configuration, S_list, S_widget>>,
      <<S_configuration, S_get, S_firewall>>,
      <<S_site>>,
      <<S_site, S_api_endpoint>>,
      <<S_site, S_api_credential, S_ipv4>>,
      <<S_site, S_rpc, S_dns_Zone_List>>,
      <<S_request>>,
      <<S_request, S_rpc>>,
      <<S_request, S_rpc, S_dns_Zone_List>> }

NavCommands == {Command(p, "s1", <<>>) : p \in NavPaths}

\* The lists of at most n distinct elements of S.
DistinctLists(S, n) ==
    {l \in UNION {[1..k -> S] : k \in 0..n} :
        \A i, j \in 1..Len(l) : i # j => l[i] # l[j]}

NavCommandLists == DistinctLists(NavCommands, MaxNavAdds)

\* VesctlDocsGenerator() before load_spec
InitLoad ==
    /\ tree = EmptyTree
    /\ tree2 = EmptyTree
    /\ adds = 0
    /\ adds2 = 0
    /\ arg = <<>>
    /\ lastAt = NoAssignment
    /\ overwrote = FALSE
    /\ pc = "start"
    /\ matrix = <<>>
    /\ pages = <<>>
    /\ sortIn = <<>>
    /\ sortOut = <<>>
    /\ catIn = [resource_name |-> <<>>, proto_package |-> <<>>]
    /\ catOut = ""
    /\ api_specs_dir = <<>>
    /\ resource_api_map = <<>>
    /\ nav = <<>>
    /\ subcats = <<>>
    /\ services = <<>>
    /\ total = 0
    /\ api_docs_urls = <<>>
    /\ generated_files = <<>>

\* load_spec: every entry of the "commands" list of the spec is inserted
\* in turn.
LoadSpec(cmds) ==
    /\ pc = "start"
    /\ pc' = "loading"
    /\ tree' = LoadCommands(tree, cmds, Len(cmds))
    /\ arg' = cmds
    /\ adds' = Len(cmds)
    /\ UNCHANGED <<tree2, adds2, lastAt, overwrote, matrix, pages,
                   sortIn, sortOut, catIn, catOut, genVars>>

NextNav ==
    \/ \E cmds \in NavCommandLists : LoadSpec(cmds)
    \/ GenerateAll

SpecNav == InitLoad /\ [][NextNav]_vars

(***************************************************************************)
(* Claims on layout selection and navigation (specification SpecNav)       *)
(***************************************************************************)

IsBranch(e) == "children" \in DOMAIN e

Labels(entries) == List([i \in 1..Len(entries) |-> entries[i].label])

EntryOf(entries, label) ==
    entries[CHOOSE i \in 1..Len(entries) : entries[i].label = label]

\* the entries of a branch that follow its first entry
AfterOverview(e) == SubSeq(e.children, 2, Len(e.children))

Groups(t) == Range(t[<<>>].children)

\* the navigation entry of a top-level group
GroupNav(g) == EntryOf(nav, to_human_readable(g))

RECURSIVE LeafPaths(_)
LeafPaths(e) ==
    IF IsBranch(e)
    THEN UNION {LeafPaths(e.children[i]) : i \in 1..Len(e.children)}
    ELSE {e.path}

NavLeafPaths == UNION {LeafPaths(nav[i]) : i \in 1..Len(nav)}

\* the part of a name before its first dot, the whole name without a dot
FirstSegment(name) ==
    IF "." \notin Range(name) THEN name
    ELSE SubSeq(name, 1, (CHOOSE k \in 1..Len(name) :
                             /\ name[k] = "."
                             /\ \A j \in 1..(k - 1) : name[j] # ".") - 1)

\* the part of a name after its last dot, the whole name without a dot
LastSegment(name) ==
    IF "." \notin Range(name) THEN name
    ELSE SubSeq(name, (CHOOSE k \in 1..Len(name) :
                          /\ name[k] = "."
                          /\ \A j \in (k + 1)..Len(name) : name[j] # ".") + 1,
                Len(name))

RECURSIVE Slashed(_)
Slashed(p) ==
    IF Len(p) = 1 THEN p[1]
    ELSE Slashed(SubSeq(p, 1, Len(p) - 1)) \o <<"/">> \o p[Len(p)]

FilePage(p) == S_commands_dir \o Slashed(p) \o S_md

IndexPage(p) == S_commands_dir \o Slashed(p) \o S_index_md

CategoryNames == {CategoryLabels[i][2] : i \in 1..Len(CategoryLabels)}

\* the navigation of a group with children shows the resource-first layout:
\* category branches that hold one page per resource of the matrix
ShowsResourceFirst(g) ==
    LET rest == AfterOverview(GroupNav(g))
    IN  /\ \A i \in 1..Len(rest) :
              IsBranch(rest[i]) /\ rest[i].label \in CategoryNames
        /\ UNION {LeafPaths(rest[i]) : i \in 1..Len(rest)}
              = {FilePage(<<g, r>>) : r \in Keys(matrix)}

\* the navigation of a group with children shows the action-first layout:
\* one entry per child, under the label of the child
ShowsActionFirst(g) ==
    LET rest == AfterOverview(GroupNav(g))
    IN  /\ Len(rest) = Len(tree[<<g>>].children)
        /\ Range(Labels(rest))
              = {to_human_readable(a) : a \in Range(tree[<<g>>].children)}

\* the pages that the entry of an action with children refers to, after the
\* overview
ActionPages(g, a) ==
    LET rest == AfterOverview(EntryOf(AfterOverview(GroupNav(g)), to_human_readable(a)))
    IN  UNION {LeafPaths(rest[i]) : i \in 1..Len(rest)}

Ascending(ls) ==
    \A i \in 1..(Len(ls) - 1) : ~KeyLess(Codes(ls[i + 1]), Codes(ls[i]))

\* C17 (as claimed): in action-first navigation the entries of the children
\* of a node follow the Overview entry in ascending alphabetical order of
\* their display labels.
C17_ChildrenByLabel ==
    pc = "generated" =>
        \A g \in Groups(tree) :
            (g # S_configuration /\ tree[<<g>>].children # <<>>) =>
                LET rest == AfterOverview(GroupNav(g))
                IN  /\ Ascending(Labels(rest))
                    /\ \A i \in 1..Len(rest) :
                          (/\ IsBranch(rest[i])
                           /\ ~(g = S_request /\ rest[i].label = to_human_readable(S_rpc)))
                              => Ascending(Labels(AfterOverview(rest[i])))

\* the nodes of the tree without children, the root apart
Childless(t) == {p \in DOMAIN t : p # <<>> /\ t[p].children = <<>>}

\* the page that stands for a node without children: by the length of the
\* path of its command
PageByDepth(p) ==
    IF Len(tree[p].command[1].path) <= 2 THEN IndexPage(p) ELSE FilePage(p)

InActionFirst(p) ==
    /\ ~(Len(p) >= 2 /\ p[1] = S_configuration)
    /\ ~(Len(p) >= 3 /\ p[1] = S_request /\ p[2] = S_rpc)

ByPath(cmds) == Sorted(cmds, [i \in 1..Len(cmds) |-> Codes(Slashed(cmds[i].path))])

\* C19: the navigation does not depend on the insertion order: for commands
\* of pairwise distinct paths, whatever the order of their insertion, the
\* navigation is the one obtained from the tree built by inserting them in
\* the order of their paths, with the same index; so any two orders give
\* the same navigation, the order of the entries at every level included.
C19_NavOrderIndependent ==
    pc = "generated" =>
        nav = generate_navigation(LoadCommands(EmptyTree, ByPath(arg), Len(arg)),
                                  resource_api_map)

\* C19 witness: the navigation has been generated from three commands
\* inserted in an order that builds another tree than the order of their
\* paths does.
C19_Witness ==
    /\ pc = "generated"
    /\ Len(arg) = 3
    /\ tree # LoadCommands(EmptyTree, ByPath(arg), Len(arg))
    /\ \E g \in Groups(tree) : Len(tree[<<g>>].children) >= 2

S_General == <<"G","e","n","e","r","a","l">>

\* C20: the category branches of resource-first navigation are in
\* alphabetical order of their labels, except that 'General', when present,
\* is last (Networking, General, Security are emitted as Networking,
\* Security, General).
C20_GeneralLast ==
    (pc = "generated" /\ <<S_configuration>> \in DOMAIN tree
                      /\ tree[<<S_configuration>>].children # <<>>) =>
        LET ls == Labels(AfterOverview(GroupNav(S_configuration)))
        IN  \A i, j \in 1..Len(ls) :
                i < j => /\ ls[i] # S_General
                         /\ ls[j] = S_General \/ KeyLess(Codes(ls[i]), Codes(ls[j]))

\* C20 witness: resources of the categories Networking, General and
\* Security, inserted in this order, have been rendered.
C20_Witness ==
    /\ pc = "generated"
    /\ Len(arg) = 3
    /\ \A i \in 1..3 : Len(arg[i].path) = 3 /\ arg[i].path[1] = S_configuration
    /\ get_resource_category(resource_api_map, arg[1].path[3]) = "Networking"
    /\ get_resource_category(resource_api_map, arg[2].path[3]) = "General"
    /\ get_resource_category(resource_api_map, arg[3].path[3]) = "Security"
    /\ Labels(AfterOverview(GroupNav(S_configuration)))
           = << <<"N","e","t","w","o","r","k","i","n","g">>,
                <<"S","e","c","u","r","i","t","y">>,
                S_General >>

(***************************************************************************)
(* generate_all with a protocol-metadata index                             *)
(***************************************************************************)

\* Number of entries of the root command list, and of spec files.
MaxResolveAdds == 2

MaxSpecFiles == 2

S_origin_pool == <<"o","r","i","g","i","n","_","p","o","o","l">>

NS_views_origin_pool ==
    RootPrefix \o <<"v","i","e","w","s",".","o","r","i","g","i","n","_","p","o","o","l">>

NS_dns == RootPrefix \o <<"d","n","s">>

ResolvePaths ==
    { <<S_configuration>>,
      <<S_configuration, S_list, S_origin_pool>>,
      <<S_configuration, S_get, S_origin_pool>>,
      <<S_configuration, S_list, S_widget>>,
      <<S_configuration, S_get, S_firewall>>,
      <<S_site, S_api_endpoint>> }

ResolveCommandLists ==
    DistinctLists({Command(p, "s1", <<>>) : p \in ResolvePaths}, MaxResolveAdds)

S_url_list == "https://docs.cloud.f5.com/list"

S_url_custom == "https://docs.cloud.f5.com/custom"

\* Operations of origin_pool: one of a custom service, and List with its
\* documentation.
OriginPoolOperations ==
    << Operation(NS_views_origin_pool
                     \o <<".","C","u","s","t","o","m","A","P","I",".","L","i","s","t">>,
                 <<S_url_custom>>),
       Operation(NS_views_origin_pool \o <<".","A","P","I",".","G","e","t">>, <<>>),
       Operation(NS_views_origin_pool \o <<".","A","P","I",".","L","i","s","t">>,
                 <<S_url_list>>) >>

\* Spec files: two of one resource with namespaces of different categories,
\* one of them with documented operations, one that cannot be parsed, one
\* that cannot be decoded, one without x-ves-proto-package, and one whose
\* file name gives no resource name.
SpecFiles ==
    { DocumentedSpecFile(S_origin_pool, NS_views_origin_pool, OriginPoolOperations),
      SpecFile(S_origin_pool, TRUE, NS_dns),
      SpecFile(S_origin_pool, FALSE, NS_dns),
      UndecodableSpecFile(S_origin_pool),
      SpecFile(S_widget, TRUE, <<>>),
      SpecFile(S_ves_swagger, TRUE, NS_dns) }

SpecFileLists == DistinctLists(SpecFiles, MaxSpecFiles)

InitResolve ==
    /\ tree = EmptyTree
    /\ tree2 = EmptyTree
    /\ adds = 0
    /\ adds2 = 0
    /\ arg = <<>>
    /\ lastAt = NoAssignment
    /\ overwrote = FALSE
    /\ pc = "start"
    /\ matrix = <<>>
    /\ pages = <<>>
    /\ sortIn = <<>>
    /\ sortOut = <<>>
    /\ catIn = [resource_name |-> <<>>, proto_package |-> <<>>]
    /\ catOut = ""
    /\ api_specs_dir \in SpecFileLists
    /\ resource_api_map = <<>>
    /\ nav = <<>>
    /\ subcats = <<>>
    /\ services = <<>>
    /\ total = 0
    /\ api_docs_urls = <<>>
    /\ generated_files = <<>>

NextResolve ==
    \/ \E cmds \in ResolveCommandLists : LoadSpec(cmds)
    \/ GenerateAll

SpecResolve == InitResolve /\ [][NextResolve]_vars

\* the namespace recorded for a resource in the index, none without an entry
RecordedNamespace(resource) ==
    IF resource \in Keys(resource_api_map)
    THEN Get(resource_api_map, resource).proto_package
    ELSE <<>>

\* the label of the category branch of the navigation that holds the page
\* of a resource of the configuration group
NavCategoryOf(resource) ==
    LET rest == AfterOverview(GroupNav(S_configuration))
    IN  {rest[i].label : i \in
            {k \in 1..Len(rest) :
                FilePage(<<S_configuration, resource>>) \in LeafPaths(rest[k])}}

\* C14: for every resource, the label that the unified resource page and
\* the navigation obtain through get_resource_category is the label of
\* get_category(resource, namespace) for the namespace recorded for the
\* resource in the index (no namespace without an entry).
C14_CategoryAgrees ==
    pc = "generated" =>
        /\ \A i \in 1..Len(subcats) :
              subcats[i][2]
                  = get_category(subcats[i][1], RecordedNamespace(subcats[i][1]))
        /\ \A r \in Keys(matrix) :
              /\ get_resource_category(resource_api_map, r)
                    = get_category(r, RecordedNamespace(r))
              /\ NavCategoryOf(r)
                    = {CategoryChars(get_category(r, RecordedNamespace(r)))}

\* C14 witness: the directory holds two parsable files of origin_pool whose
\* namespaces resolve to different categories, and the page and the
\* navigation entry of origin_pool carry the category of the first.
C14_Witness ==
    /\ pc = "generated"
    /\ Len(api_specs_dir) = 2
    /\ \A i \in 1..2 : api_specs_dir[i].resource_name = S_origin_pool
                       /\ api_specs_dir[i].readable
    /\ get_category(S_origin_pool, api_specs_dir[1].proto_package)
           # get_category(S_origin_pool, api_specs_dir[2].proto_package)
    /\ \E i \in 1..Len(subcats) :
          /\ subcats[i][1] = S_origin_pool
          /\ subcats[i][2] = get_category(S_origin_pool, api_specs_dir[1].proto_package)
          /\ NavCategoryOf(S_origin_pool) = {CategoryChars(subcats[i][2])}

(***************************************************************************)
(* generate_all on the procedures of request/rpc                           *)
(***************************************************************************)

\* Number of procedure descriptors of the root command list.
MaxRpcProcs == 3

S_alert_Alerts ==
    <<"a","l","e","r","t",".","C","u","s","t","o","m","A","P","I",".","A","l","e","r","t","s">>

S_alert_Get ==
    <<"a","l","e","r","t",".","C","u","s","t","o","m","A","P","I",".","G","e","t">>

S_alert_Admin_Get ==
    <<"a","l","e","r","t",".","A","d","m","i","n",".","G","e","t">>

S_Ping == <<"P","i","n","g">>

S_dns_Zone_Get == <<"d","n","s",".","Z","o","n","e",".","G","e","t">>

\* Procedures of two services, two of them with the same last segment, one
\* name without a dot, and a descriptor below a procedure that has none of
\* its own.
RpcPaths ==
    { <<S_request, S_rpc, S_alert_Alerts>>,
      <<S_request, S_rpc, S_alert_Get>>,
      <<S_request, S_rpc, S_alert_Admin_Get>>,
      <<S_request, S_rpc, S_dns_Zone_List>>,
      <<S_request, S_rpc, S_Ping>>,
      <<S_request, S_rpc, S_dns_Zone_Get, S_detail>> }

\* The group, the action, then at most MaxRpcProcs procedures.
RpcCommandLists ==
    {<<Command(<<S_request>>, "s1", <<>>), Command(<<S_request, S_rpc>>, "s1", <<>>)>> \o l :
        l \in DistinctLists({Command(p, "s1", <<>>) : p \in RpcPaths}, MaxRpcProcs)}

NextRpc ==
    \/ \E cmds \in RpcCommandLists : LoadSpec(cmds)
    \/ GenerateAll

SpecRpc == InitLoad /\ [][NextRpc]_vars

RpcNode == <<S_request, S_rpc>>

\* the children of the procedure-list node that carry a command
Procedures == {c \in Range(tree[RpcNode].children) : tree[Append(RpcNode, c)].command # <<>>}

\* C16: every child of the procedure-list node that carries a command is in
\* exactly the bucket keyed by the first dot-delimited segment of its name
\* (the whole name without a dot), with the last segment as procedure_name,
\* no bucket holds anything else, and every bucket is in ascending order of
\* procedure_name.
C16_RpcGrouping ==
    pc = "generated" =>
        /\ \A c \in Procedures :
              \E i \in 1..Len(services) :
                  /\ services[i][1] = FirstSegment(c)
                  /\ \E k \in 1..Len(services[i][2]) :
                        /\ services[i][2][k].full_name = c
                        /\ services[i][2][k].procedure_name = LastSegment(c)
                        /\ services[i][2][k].command = tree[Append(RpcNode, c)].command[1]
        /\ \A i \in 1..Len(services) :
              /\ \A j \in 1..Len(services) : services[j][1] = services[i][1] => j = i
              /\ \A k \in 1..Len(services[i][2]) :
                    /\ services[i][2][k].full_name \in Procedures
                    /\ FirstSegment(services[i][2][k].full_name) = services[i][1]
                    /\ \A m \in 1..Len(services[i][2]) :
                          services[i][2][m].full_name = services[i][2][k].full_name => m = k
              /\ Ascending(List([k \in 1..Len(services[i][2]) |->
                                    services[i][2][k].procedure_name]))

\* the procedure names of every service
ProcedureNames ==
    List([i \in 1..Len(services) |->
             <<services[i][1],
               List([k \in 1..Len(services[i][2]) |-> services[i][2][k].procedure_name])>>])

\* C16 witness: alert.CustomAPI.Get, alert.CustomAPI.Alerts and
\* dns.Zone.List, inserted in this order, are grouped as alert: [Alerts,
\* Get] and dns: [List].
C16_Witness ==
    /\ pc = "generated"
    /\ Len(arg) = 5
    /\ arg[3].path[3] = S_alert_Get
    /\ arg[4].path[3] = S_alert_Alerts
    /\ arg[5].path[3] = S_dns_Zone_List
    /\ ProcedureNames
           = << <<<<"a","l","e","r","t">>, << <<"A","l","e","r","t","s">>, <<"G","e","t">> >> >>,
                <<<<"d","n","s">>, << <<"L","i","s","t">> >> >> >>

(***************************************************************************)
(* Claims on the entries of a node with children (SpecNav)                 *)
(***************************************************************************)

\* the entry '<label> Overview' of the node at p
OverviewOf(p) == Leaf(to_human_readable(p[Len(p)]) \o S_Overview, IndexPage(p))

\* the nodes whose children action-first navigation renders one by one
RendersChildren(p) ==
    /\ p # <<S_configuration>>
    /\ p # <<S_request, S_rpc>>

\* e is the navigation entry of the node at p: when the node has children
\* the entry is a branch under the label of the node, the Overview of the
\* node is its first entry and no later one, and the same holds of the
\* entry of every child that is rendered
RECURSIVE OverviewFirstAt(_, _)
OverviewFirstAt(e, p) ==
    tree[p].children # <<>> =>
        /\ IsBranch(e)
        /\ e.label = to_human_readable(p[Len(p)])
        /\ e.children # <<>>
        /\ e.children[1] = OverviewOf(p)
        /\ \A i \in 2..Len(e.children) : e.children[i] # OverviewOf(p)
        /\ RendersChildren(p) =>
              \A c \in Range(tree[p].children) :
                  OverviewFirstAt(EntryOf(AfterOverview(e), to_human_readable(c)),
                                  Append(p, c))

\* C21: every navigation branch of a node with children, in the
\* resource-first, the service-grouped and the action-first layout, has as
\* its first entry the '<label> Overview' leaf that points at the index page
\* of the node, before every entry of a child.
C21_OverviewFirst ==
    pc = "generated" =>
        \A g \in Groups(tree) : OverviewFirstAt(GroupNav(g), <<g>>)

\* C21 witness: the navigation has been generated for a resource-first
\* group, for request/rpc and for an action with children of another group,
\* and each branch begins with the Overview of its node.
C21_Witness ==
    /\ pc = "generated"
    /\ \A p \in {<<S_configuration>>, <<S_request, S_rpc>>, <<S_site, S_api_credential>>} :
          p \in DOMAIN tree /\ tree[p].children # <<>>
    /\ GroupNav(S_configuration).children[1] = OverviewOf(<<S_configuration>>)
    /\ EntryOf(AfterOverview(GroupNav(S_request)), to_human_readable(S_rpc)).children[1]
           = OverviewOf(<<S_request, S_rpc>>)
    /\ EntryOf(AfterOverview(GroupNav(S_site)), to_human_readable(S_api_credential)).children[1]
           = OverviewOf(<<S_site, S_api_credential>>)

\* the service names of the procedures that carry a command
ServiceNames == {FirstSegment(c) : c \in Procedures}

\* the navigation entry of request/rpc
RpcNav == EntryOf(AfterOverview(GroupNav(S_request)), to_human_readable(S_rpc))

ServicePage(s) == FilePage(<<S_request, S_rpc, s>>)

\* C22: for the node request/rpc with children the navigation is the
\* Overview entry followed by exactly one entry per service, in ascending
\* order of the service names, each a leaf under the label of the service
\* that points at 'commands/request/rpc/<service>.md'; there is no entry of
\* a procedure and no category branch.
C22_RpcServiceNav ==
    (pc = "generated" /\ tree[RpcNode].children # <<>>) =>
        LET rest == AfterOverview(RpcNav)
            serviceAt == [i \in 1..Len(rest) |->
                             CHOOSE s \in ServiceNames : rest[i].path = ServicePage(s)]
        IN  /\ RpcNav.children[1] = OverviewOf(RpcNode)
            /\ Len(rest) = Cardinality(ServiceNames)
            /\ \A i \in 1..Len(rest) :
                  /\ ~IsBranch(rest[i])
                  /\ \E s \in ServiceNames :
                        rest[i] = Leaf(to_human_readable(s), ServicePage(s))
            /\ \A i, j \in 1..Len(rest) :
                  i < j => KeyLess(Codes(serviceAt[i]), Codes(serviceAt[j]))

\* C22 witness: dns.Zone.List, alert.CustomAPI.Get and
\* alert.CustomAPI.Alerts, inserted in this order, are rendered as RPC
\* Overview, Alert, DNS.
C22_Witness ==
    /\ pc = "generated"
    /\ Len(arg) = 5
    /\ arg[3].path[3] = S_dns_Zone_List
    /\ arg[4].path[3] = S_alert_Get
    /\ arg[5].path[3] = S_alert_Alerts
    /\ RpcNav.children
           = << OverviewOf(RpcNode),
                Leaf(<<"A","l","e","r","t">>, ServicePage(<<"a","l","e","r","t">>)),
                Leaf(<<"D","N","S">>, ServicePage(<<"d","n","s">>)) >>

(***************************************************************************)
(* Claims on the tree as a whole (specification Spec)                      *)
(***************************************************************************)

\* the full paths of the descriptors inserted so far, those nested in
\* subcommands fields included
InsertedPaths == DOMAIN lastAt

\* C23: count_commands is the number of nodes that carry a command; after
\* add_command calls on commands with non-empty paths it is the number of
\* distinct full paths inserted, nested subcommands included: a path
\* inserted twice counts once, a node without a descriptor counts zero.
\* generate_all reports this number.
C23_CountCommands ==
    /\ count_commands(tree, <<>>) = Cardinality(CommandPaths(tree))
    /\ <<>> \notin InsertedPaths =>
          count_commands(tree, <<>>) = Cardinality(InsertedPaths)
    /\ pc = "generated" => total = count_commands(tree, <<>>)

\* C23 witness: a descriptor with a nested subcommand and a second one at
\* the path of the first have been inserted below a group without a
\* descriptor, and generate_all has counted two commands among three nodes
\* below the root.
C23_Witness ==
    /\ pc = "generated"
    /\ adds = 2
    /\ overwrote
    /\ <<>> \notin InsertedPaths
    /\ Cfg \in DOMAIN tree /\ tree[Cfg].command = <<>>
    /\ total = 2
    /\ Cardinality(InsertedPaths) = 2
    /\ Cardinality(DOMAIN tree) = 4

\* the resource names that the commands and the spec files name
ResolvedResources ==
    ResourceNames \cup {S_origin_pool, S_widget, S_bgp, S_firewall}

\* C24: with an empty protocol-metadata index, get_resource_category is
\* the pattern-only get_category(resource) for every resource, on the
\* pages and in the navigation; get_api_docs_url gives no URL for any
\* resource and action, so no page carries a link; and the navigation holds
\* the Commands entry and one entry for every top-level group.
C24_AbsentIndex ==
    (pc = "generated" /\ resource_api_map = <<>>) =>
        /\ \A r \in ResolvedResources :
              /\ get_resource_category(resource_api_map, r) = get_category(r, <<>>)
              /\ \A a \in Range(ACTION_ORDER) :
                    get_api_docs_url(resource_api_map, r, a) = <<>>
        /\ \A i \in 1..Len(subcats) :
              subcats[i][2] = get_category(subcats[i][1], <<>>)
        /\ \A r \in Keys(matrix) :
              NavCategoryOf(r) = {CategoryChars(get_category(r, <<>>))}
        /\ \A i \in 1..Len(api_docs_urls) : api_docs_urls[i][2] = <<>>
        /\ Len(nav) = 1 + Cardinality(Groups(tree))
        /\ \A g \in Groups(tree) :
              \E i \in 2..Len(nav) : nav[i].label = to_human_readable(g)

\* C24 witness: without a spec directory, generate_all has rendered two
\* groups and has placed firewall under the category of its name pattern,
\* which is not 'General'.
C24_Witness ==
    /\ pc = "generated"
    /\ api_specs_dir = <<>>
    /\ resource_api_map = <<>>
    /\ Groups(tree) = {S_configuration, S_site}
    /\ Len(nav) = 3
    /\ S_firewall \in Keys(matrix)
    /\ get_category(S_firewall, <<>>) = "Security"
    /\ NavCategoryOf(S_firewall) = {CategoryChars("Security")}

\* the files whose name yields a resource name and that open and json.load
\* read
ParsedFiles ==
    {i \in 1..Len(api_specs_dir) :
        /\ api_specs_dir[i].resource_name # <<>>
        /\ api_specs_dir[i].resource_name # S_ves_swagger
        /\ api_specs_dir[i].readable}

\* the first parsed file of a resource
FirstParsed(r) ==
    api_specs_dir[CHOOSE i \in ParsedFiles :
                     /\ api_specs_dir[i].resource_name = r
                     /\ \A j \in ParsedFiles :
                           api_specs_dir[j].resource_name = r => i <= j]

\* C25 (as claimed): whatever the spec files, load_api_specs returns; the
\* index then holds one entry for every resource that has a parsed file,
\* the namespace, category and spec of the first such file; a file that
\* fails to read or parse creates no entry and does not stop the loading of
\* the files after it; a resource without an entry is categorized by
\* patterns only.
C25_FirstParsedFileWins ==
    pc \in {"generated", "failed"} =>
        /\ pc = "generated"
        /\ Keys(resource_api_map)
              = {api_specs_dir[i].resource_name : i \in ParsedFiles}
        /\ \A r \in Keys(resource_api_map) :
              Get(resource_api_map, r)
                  = [spec |-> FirstParsed(r).operations,
                     proto_package |-> FirstParsed(r).proto_package,
                     category |-> get_category(r, FirstParsed(r).proto_package)]
        /\ \A r \in ResolvedResources \ Keys(resource_api_map) :
              get_resource_category(resource_api_map, r) = get_category(r, <<>>)

(***************************************************************************)
(* Claims on the top level of the navigation (SpecNav)                     *)
(***************************************************************************)

\* C26: the navigation begins with the entry 'Commands' of the index page
\* and continues with exactly one entry per top-level group of the tree,
\* in ascending order of the group names, whatever the order in which the
\* groups were inserted.
C26_GroupsInNameOrder ==
    pc = "generated" =>
        LET groupAt == [i \in 2..Len(nav) |->
                           CHOOSE g \in Groups(tree) : nav[i].label = to_human_readable(g)]
        IN  /\ nav[1] = Leaf(S_Commands, <<"c","o","m","m","a","n","d","s","/",
                                           "i","n","d","e","x",".","m","d">>)
            /\ Len(nav) = 1 + Cardinality(Groups(tree))
            /\ \A i \in 2..Len(nav) :
                  \E g \in Groups(tree) : nav[i].label = to_human_readable(g)
            /\ \A i, j \in 2..Len(nav) :
                  i < j => KeyLess(Codes(groupAt[i]), Codes(groupAt[j]))

\* C26 witness: the groups site, request and configuration, inserted in
\* this order, are listed as Commands, Configuration, Request, Site.
C26_Witness ==
    /\ pc = "generated"
    /\ tree[<<>>].children = <<S_site, S_request, S_configuration>>
    /\ Labels(nav) = << S_Commands,
                        to_human_readable(S_configuration),
                        to_human_readable(S_request),
                        to_human_readable(S_site) >>
    /\ to_human_readable(S_site) = <<"S","i","t","e">>

(***************************************************************************)
(* Claims on the pages of the navigation (SpecNav)                         *)
(***************************************************************************)

\* C27 (as claimed): every page path that a leaf of the navigation refers
\* to is the path of a file that generate_all has written for the same
\* tree, also for groups and actions without a descriptor of their own.
C27_NavPagesWritten ==
    pc = "generated" => NavLeafPaths \subseteq Range(generated_files)

\* C28: after add_command calls on commands with non-empty paths, every
\* node that carries a command sits at the position that the path of the
\* command spells (the length of the path is the depth of the node and its
\* last segment is the name of the node), and every node without children,
\* the root apart, carries a command.
C28_NodesAtTheirPaths ==
    <<>> \notin InsertedPaths =>
        /\ \A p \in CommandPaths(tree) :
              LET cmd == tree[p].command[1]
              IN  /\ Len(cmd.path) = Len(p)
                  /\ cmd.path = p
                  /\ cmd.path[Len(cmd.path)] = tree[p].name
        /\ \A p \in Childless(tree) : tree[p].command # <<>>

\* C28 witness: below a group and an action that carry no command, a node
\* of depth 3 without children carries the command of its path, and a
\* second insertion has added a node of depth 4 below another node.
C28_Witness ==
    /\ adds = 2
    /\ <<>> \notin InsertedPaths
    /\ CommandPaths(tree) = { <<S_configuration, S_get, S_pool>>,
                              <<S_configuration, S_list, S_namespace, S_detail>> }
    /\ Childless(tree) = CommandPaths(tree)
    /\ tree[<<S_configuration, S_get, S_pool>>].name = S_pool
    /\ tree[<<S_configuration, S_get, S_pool>>].command[1].path
           = <<S_configuration, S_get, S_pool>>

\* p is a proper prefix of q
ProperPrefix(p, q) == Len(p) < Len(q) /\ SubSeq(q, 1, Len(p)) = p

\* the paths of a declaration: of the command and of every subcommand
\* nested in it
DeclaredPaths(cmd) == {c.path : c \in Range(Flatten(cmd))}

\* C29: add_command(cmd) deletes no node and changes the command only of
\* the nodes at the path of cmd or of one of its nested subcommands.  The
\* nodes off these paths (neither at one of them nor a proper prefix of
\* one) keep their command and their children, and every new node lies on
\* one of these paths.  A node on the way to one of these paths keeps its
\* command and its children in their order and gains only the next segment
\* of the path, after them; a node whose command is overwritten keeps its
\* children.
C29_AddCommandFramePaths ==
    [][adds' = adds + 1 =>
          LET at == DeclaredPaths(arg'[1])
          IN  /\ DOMAIN tree \subseteq DOMAIN tree'
              /\ \A p \in DOMAIN tree' \ DOMAIN tree :
                    \E q \in at : p = q \/ ProperPrefix(p, q)
              /\ \A p \in DOMAIN tree :
                    /\ tree'[p].name = tree[p].name
                    /\ p \notin at => tree'[p].command = tree[p].command
                    /\ Len(tree'[p].children) >= Len(tree[p].children)
                    /\ SubSeq(tree'[p].children, 1, Len(tree[p].children))
                          = tree[p].children
                    /\ \A k \in (Len(tree[p].children) + 1)..Len(tree'[p].children) :
                          \E q \in at : /\ ProperPrefix(p, q)
                                        /\ q[Len(p) + 1] = tree'[p].children[k]
                    /\ (\A q \in at : ~ProperPrefix(p, q)) =>
                          tree'[p].children = tree[p].children]_vars

\* C29 witness: a command has been inserted at a path that carried another
\* command and had children; the node carries the new command and has kept
\* its children.
C29_Witness ==
    /\ adds = 2
    /\ overwrote
    /\ arg[1].subcommands = <<>>
    /\ arg[1].path = <<S_configuration, S_list>>
    /\ tree[arg[1].path].command = <<arg[1]>>
    /\ tree[arg[1].path].children = <<S_namespace, S_pool>>

\* C30 (as claimed): the services and the order of the procedures of each
\* do not depend on the order of insertion: for commands of pairwise
\* distinct paths, whatever the order of their insertion, the grouping is
\* the one of the tree built by inserting them in the order of their paths,
\* also when two procedures of a service have the same last segment.
C30_RpcOrderIndependent ==
    pc = "generated" =>
        LET canonical == LoadCommands(EmptyTree, ByPath(arg), Len(arg))
            grouped   == collect_rpc_services(tree, RpcNode)
            expected  == collect_rpc_services(canonical, RpcNode)
        IN  /\ Keys(grouped) = Keys(expected)
            /\ \A s \in Keys(grouped) : Get(grouped, s) = Get(expected, s)
            /\ services = generate_rpc_service_grouped(canonical, RpcNode)

====
